---- MODULE Spec2Model ----
(***************************************************************************)
(* Model of the match-and-alert core of ApnaCriminal:                      *)
(*   - backend_adapter._notify_alert   (alert cooldown gate)               *)
(*   - detector.match_embedding        (gallery matcher)                   *)
(*   - backend_adapter._run_detection_pipeline (use of the match index)    *)
(* Time is counted in clock ticks of 10 s, so the default ALERT_COOLDOWN   *)
(* of 30 s is 3 ticks.                                                     *)
(***************************************************************************)
EXTENDS Integers, Sequences, FiniteSets, TLC

\* backend_adapter.py:83  ALERT_COOLDOWN = int(os.getenv("ALERT_COOLDOWN", "30")), in ticks
ALERT_COOLDOWN == 3

\* last clock value explored
MaxTime == 10
\* longest batch of matches handed to _notify_alert
MaxBatch == 2

\* time.time() at the first call: far beyond one cooldown after the epoch,
\* so the initial 0 of _last_alert_time always counts as elapsed
BootTime == ALERT_COOLDOWN

\* a match dict without a "name" key
Missing == "<missing>"

\* match dicts: X comes with two scores (duplicates that differ in score)
MatchDicts ==
    {[name |-> "X", score |-> 80], [name |-> "X", score |-> 95],
     [name |-> "Y", score |-> 90],
     [name |-> "", score |-> 90], [name |-> "Unknown", score |-> 90],
     [name |-> Missing, score |-> 90]}

\* batches of at most MaxBatch matches
Batches == UNION {[1..n -> MatchDicts] : n \in 0..MaxBatch}

VARIABLES
    clock,                        \* time.time()
    last_alert_time,              \* _last_alert_time
    recently_alerted_criminals,   \* _recently_alerted_criminals
    call,                         \* observation of the call that just returned
    hist,                         \* history: when alerts really fired
    entries,                      \* faces.load_all_criminals(): the gallery
    mcall,                        \* observation of the last matcher / pipeline call
    thread,                       \* per thread: position and locals inside _notify_alert
    det,                          \* detector.py module globals (lazy loader state)
    dcall,                        \* observation of the last detector call
    loader,                       \* per thread: position inside a lazy loader
    scall,                        \* observation of the last _serialize_matches call
    video,                        \* one /api/detect/video request and its frame stream
    chan,                         \* the alert channels: the send in progress, its outcome
    store,                        \* faces.py: metadata, image and embedding files; the cache
    sess,                         \* the sessions table of login / register
    shadow                        \* the alert gate run without its pruning step

gateVars == <<clock, last_alert_time, recently_alerted_criminals, call, hist>>
matchVars == <<entries, mcall>>
concVars == <<thread>>
moreVars == <<video, chan, store, sess, shadow>>
restVars == <<det, dcall, loader, scall, moreVars>>
vars == <<clock, last_alert_time, recently_alerted_criminals, call, hist, entries, mcall, thread,
          det, dcall, loader, scall, video, chan, store, sess, shadow>>

----------------------------------------------------------------------------
(* dict helpers *)

\* d.get(k, default)
Get(d, k, default) == IF k \in DOMAIN d THEN d[k] ELSE default

\* match.get('name', 'Unknown')
GetName(match) == IF match.name = Missing THEN "Unknown" ELSE match.name

\* d[k] = v
Put(d, k, v) == [x \in DOMAIN d \cup {k} |-> IF x = k THEN v ELSE d[x]]

\* {k: v for k, v in d.items() if v > cutoff}
PruneOldMut(d, cutoff) == [k \in {x \in DOMAIN d : d[x] > cutoff + ALERT_COOLDOWN * 2} |-> d[k]]
PruneOld(d, cutoff) == [k \in {x \in DOMAIN d : d[x] > cutoff} |-> d[k]]

----------------------------------------------------------------------------
(* _notify_alert, lines 693-739 *)

\* line 707: if not name or name == 'Unknown': continue
IsFilteredMut(name) == name = ""
IsFiltered(name) == name = "" \/ name = "Unknown"

\* line 712: if now - last_alerted < ALERT_COOLDOWN: continue
RecentlyAlertedMut(now, last_alerted) == now - last_alerted <= ALERT_COOLDOWN
RecentlyAlerted(now, last_alerted) == now - last_alerted < ALERT_COOLDOWN

\* line 717: any(m.get('name') == name for m in unique_matches)
InUnique(unique, name) == \E i \in 1..Len(unique) : unique[i].name = name

\* lines 705-719: one iteration of the loop, returns the new unique_matches
LoopBodyMut(unique, match, now, recent) ==
    LET name == GetName(match) IN
    IF IsFiltered(name) THEN unique
    ELSE IF RecentlyAlerted(now, Get(recent, name, 0)) THEN unique
    ELSE IF ~InUnique(unique, name) THEN Append(unique, match)
    ELSE [i \in 1..Len(unique) |-> IF unique[i].name = name THEN match ELSE unique[i]]
LoopBody(unique, match, now, recent) ==
    LET name == GetName(match) IN
    IF IsFiltered(name) THEN unique
    ELSE IF RecentlyAlerted(now, Get(recent, name, 0)) THEN unique
    ELSE IF ~InUnique(unique, name) THEN Append(unique, match)
    ELSE unique

\* lines 702-719: the whole loop over matches
RECURSIVE UniqueMatches(_, _, _, _)
UniqueMatches(matches, i, now, recent) ==
    IF i = 0 THEN <<>>
    ELSE LoopBody(UniqueMatches(matches, i - 1, now, recent), matches[i], now, recent)

\* line 719: new_criminals, the names appended alongside unique_matches
NewCriminalsMut(unique) == IF unique = <<>> THEN {} ELSE {unique[1].name}
NewCriminals(unique) == {unique[i].name : i \in 1..Len(unique)}

\* line 727: if now - _last_alert_time < ALERT_COOLDOWN: return
GlobalCooldownActiveMut(now, last) == FALSE
GlobalCooldownActive(now, last) == now - last < ALERT_COOLDOWN

\* lines 734-735: for name in new_criminals: _recently_alerted_criminals[name] = now
MarkAlerted(recent, names, now) ==
    [k \in DOMAIN recent \cup names |-> IF k \in names THEN now ELSE recent[k]]

\* line 743: unique_matches.sort(key=score, reverse=True): stable, descending
RECURSIVE InsertByScore(_, _)
InsertByScore(sorted, m) ==
    IF sorted = <<>> THEN <<m>>
    ELSE IF Head(sorted).score >= m.score THEN <<Head(sorted)>> \o InsertByScore(Tail(sorted), m)
    ELSE <<m>> \o sorted

RECURSIVE SortByScoreDesc(_, _)
SortByScoreDesc(unique, i) ==
    IF i = 0 THEN <<>> ELSE InsertByScore(SortByScoreDesc(unique, i - 1), unique[i])

\* the observation left by a call
Observed(kind, matches, now, unique) ==
    [kind |-> kind, matches |-> matches, now |-> now, unique |-> unique]

NoCall == Observed("none", <<>>, 0, <<>>)

\* history of real dispatches: time of the last two, and per label
NoHist == [prev |-> -1, last |-> -1, at |-> [n \in {} |-> 0]]

RecordFire(h, names, now) ==
    [prev |-> h.last, last |-> now,
     at |-> [k \in DOMAIN h.at \cup names |-> IF k \in names THEN now ELSE h.at[k]]]

\* the state a call that passes every check leaves (lines 733-739)
FiredStateMut(recent, names, now) == MarkAlerted(recent, names, now)
FiredState(recent, names, now) ==
    PruneOld(MarkAlerted(recent, names, now), now - (ALERT_COOLDOWN * 2))

\* the state a suppressed call leaves (returns at lines 695, 724, 730)
SuppressedStateMut(recent, now) == PruneOld(recent, now - (ALERT_COOLDOWN * 2))
SuppressedState(recent, now) == recent

\* _notify_alert, lines 693-739: its effect on the alert state
NotifyAlertBody(matches) ==
    LET now == clock
        unique == UniqueMatches(matches, Len(matches), now, recently_alerted_criminals)
        sorted == SortByScoreDesc(unique, Len(unique))
    IN
    /\ IF matches = <<>> THEN
           /\ call' = Observed("empty", matches, now, <<>>)
           /\ recently_alerted_criminals' = SuppressedState(recently_alerted_criminals, now)
           /\ UNCHANGED <<clock, last_alert_time, hist>>
       ELSE IF unique = <<>> THEN
           /\ call' = Observed("no_new", matches, now, <<>>)
           /\ recently_alerted_criminals' = SuppressedState(recently_alerted_criminals, now)
           /\ UNCHANGED <<clock, last_alert_time, hist>>
       ELSE IF GlobalCooldownActive(now, last_alert_time) THEN
           /\ call' = Observed("global", matches, now, <<>>)
           /\ recently_alerted_criminals' = SuppressedState(recently_alerted_criminals, now)
           /\ UNCHANGED <<clock, last_alert_time, hist>>
       ELSE
           /\ last_alert_time' = now
           /\ recently_alerted_criminals' =
                  FiredState(recently_alerted_criminals, NewCriminals(unique), now)
           /\ call' = Observed("fired", matches, now, sorted)
           /\ hist' = RecordFire(hist, {sorted[i].name : i \in 1..Len(sorted)}, now)
           /\ UNCHANGED clock

\* a call of _notify_alert by a request handler
NotifyAlert(matches) ==
    /\ call.kind = "none"
    /\ NotifyAlertBody(matches)
    /\ UNCHANGED <<entries, mcall, thread, restVars>>

\* the caller goes on; the next call may come at the same clock value
Return ==
    /\ call.kind # "none"
    /\ call' = NoCall
    /\ UNCHANGED <<clock, last_alert_time, recently_alerted_criminals, hist, entries, mcall, thread, restVars>>

\* the clock advances between calls
Tick ==
    /\ clock < MaxTime
    /\ clock' = clock + 1
    /\ call' = NoCall
    /\ UNCHANGED <<last_alert_time, recently_alerted_criminals, hist, entries, mcall, thread, restVars>>

GateInit ==
    /\ clock = BootTime
    /\ last_alert_time = 0
    /\ recently_alerted_criminals = [n \in {} |-> 0]
    /\ call = NoCall
    /\ hist = NoHist

GateNext ==
    \/ \E matches \in Batches : NotifyAlert(matches)
    \/ Return
    \/ Tick

----------------------------------------------------------------------------
(* detector.match_embedding, lines 200-232.  Embeddings are integer vectors *)
(* whose norms are integers; normalised vectors are kept in fixed point     *)
(* with one decimal digit, so a similarity is a number of hundredths.       *)

\* largest gallery explored
MaxGallery == 3
\* most faces in one image
MaxFaces == 1

\* embedding is None
NoneEmb == <<>>

\* embeddings a face or a gallery entry may have; <<0, 0>> is what the
\* grayscale fallback (detector.py:192) yields for an all-black crop
EmbeddingValues == {<<0, 0>>, <<3, 4>>, <<6, 8>>, <<5, 0>>, <<0, 5>>}

\* thresholds in hundredths: 0.55 at the pipeline call site, 0.6 the default,
\* and 0, which every similarity of a zero vector would reach
Thresholds == {0, 55, 60}

\* match index None (indices are counted from 1 here, from 0 in Python)
NoMatch == 0

\* score None
NoScore == -999

\* registered names, in the insertion order of faces.criminal_data
GalleryNames == <<"Alice", "Bob", "Carol", "Dave", "Eve">>

\* galleries: load_all_criminals() returns one entry per registered name
Galleries ==
    UNION {{[i \in 1..n |-> [name |-> GalleryNames[i], embedding |-> e[i]]] :
               e \in [1..n -> EmbeddingValues]} : n \in 0..MaxGallery}

SumSq(v) == v[1] * v[1] + v[2] * v[2]

Dot(a, b) == a[1] * b[1] + a[2] * b[2]

\* np.linalg.norm
Norm(v) == CHOOSE n \in 0..SumSq(v) : n * n = SumSq(v)

\* arr / norm, lines 212 and 220
Normalize(v) == [i \in 1..Len(v) |-> (v[i] * 10) \div Norm(v)]

\* lines 214-220: the gallery vectors, normalised, zero-norm ones skipped
RECURSIVE NormalizedRefsMut(_, _)
NormalizedRefsMut(known_embeddings, i) ==
    IF i = 0 THEN <<>>
    ELSE LET rest == NormalizedRefsMut(known_embeddings, i - 1) IN
         IF Norm(known_embeddings[i]) = 0 THEN Append(rest, known_embeddings[i])
         ELSE Append(rest, Normalize(known_embeddings[i]))
RECURSIVE NormalizedRefs(_, _)
NormalizedRefs(known_embeddings, i) ==
    IF i = 0 THEN <<>>
    ELSE LET rest == NormalizedRefs(known_embeddings, i - 1) IN
         IF Norm(known_embeddings[i]) = 0 THEN rest
         ELSE Append(rest, Normalize(known_embeddings[i]))

\* np.argmax: the first index holding the maximum
ArgMaxMut(similarity) ==
    CHOOSE i \in 1..Len(similarity) :
       /\ \A j \in 1..Len(similarity) : similarity[j] <= similarity[i]
       /\ \A j \in (i + 1)..Len(similarity) : similarity[j] < similarity[i]
ArgMax(similarity) ==
    CHOOSE i \in 1..Len(similarity) :
       /\ \A j \in 1..Len(similarity) : similarity[j] <= similarity[i]
       /\ \A j \in 1..(i - 1) : similarity[j] < similarity[i]

\* line 230: if best_score >= threshold
AcceptedMut(best_score, threshold) == best_score > threshold
Accepted(best_score, threshold) == best_score >= threshold

MatchEmbedding(embedding, known_embeddings, threshold) ==
    IF embedding = NoneEmb \/ known_embeddings = <<>> THEN [idx |-> NoMatch, score |-> 0]
    ELSE IF Norm(embedding) = 0 THEN [idx |-> NoMatch, score |-> 0]
    ELSE
      LET emb == Normalize(embedding)
          normalized == NormalizedRefs(known_embeddings, Len(known_embeddings))
      IN
      IF normalized = <<>> THEN [idx |-> NoMatch, score |-> 0]
      ELSE
        LET similarity == [i \in 1..Len(normalized) |-> Dot(normalized[i], emb)]
            best_match_idx == ArgMax(similarity)
            best_score == similarity[best_match_idx]
        IN
        IF Accepted(best_score, threshold)
        THEN [idx |-> best_match_idx, score |-> best_score]
        ELSE [idx |-> NoMatch, score |-> best_score]

----------------------------------------------------------------------------
(* backend_adapter._load_db_bundle and _run_detection_pipeline *)

\* _load_db_bundle, lines 269-273: the embeddings that are not None
RECURSIVE BundleEmbeddings(_, _)
BundleEmbeddings(ents, i) ==
    IF i = 0 THEN <<>>
    ELSE LET rest == BundleEmbeddings(ents, i - 1) IN
         IF ents[i].embedding = NoneEmb THEN rest ELSE Append(rest, ents[i].embedding)

\* "0".."9"
Digits == <<"0", "1", "2", "3", "4", "5", "6", "7", "8", "9">>

\* f"{score:.2f}" (lines 395 and 400) of a score given in hundredths
FormatScoreMut(score) ==
    LET a == IF score < 0 THEN 0 - score ELSE score IN
    (IF score < 0 THEN "-" ELSE "") \o Digits[(a \div 100) + 1] \o "."
        \o Digits[((a \div 10) % 10) + 1]
FormatScore(score) ==
    LET a == IF score < 0 THEN 0 - score ELSE score IN
    (IF score < 0 THEN "-" ELSE "") \o Digits[(a \div 100) + 1] \o "."
        \o Digits[((a \div 10) % 10) + 1] \o Digits[(a % 10) + 1]

\* line 381: mask_block = bool(has_mask)
MaskBlockMut(has_mask) == FALSE
MaskBlock(has_mask) == has_mask

\* line 402: "Mask detected" not in label; no registered name contains it
MentionsMask(label) == label = "Mask detected - remove mask"

\* lines 391-414: name, label and detection of one face, given its match
FaceLabelled(ents, has_mask, mask_block, m) ==
    LET matched == m.idx # NoMatch /\ m.idx <= Len(ents) /\ ~mask_block
        name == IF matched
                THEN (IF ents[m.idx].name = "" THEN "Unknown" ELSE ents[m.idx].name)
                ELSE "Unknown"
        label == IF mask_block THEN "Mask detected - remove mask"
                 ELSE IF matched THEN name \o " (" \o FormatScore(m.score) \o ")"
                 ELSE IF m.score # NoScore THEN "Unknown (" \o FormatScore(m.score) \o ")"
                 ELSE "Unknown"
        suffixed == IF has_mask /\ ~MentionsMask(label)
                    THEN label \o " [Mask detected]" ELSE label
    IN [match_idx |-> m.idx,
        matches |-> IF matched THEN <<[name |-> name, score |-> m.score]>> ELSE <<>>,
        detection |-> [label |-> suffixed,
                       name |-> IF mask_block THEN "Masked" ELSE name,
                       score |-> m.score,
                       has_mask |-> has_mask]]


\* lines 381-390: the mask check, then the match of an unmasked face
PipelineFace(ents, embeddings, emb, has_mask) ==
    FaceLabelled(ents, has_mask, MaskBlock(has_mask),
                 IF MaskBlock(has_mask) THEN [idx |-> NoMatch, score |-> NoScore]
                 ELSE IF emb # NoneEmb /\ embeddings # <<>>
                      THEN MatchEmbedding(emb, embeddings, 55)
                      ELSE [idx |-> NoMatch, score |-> NoScore])

\* lines 364-416: the loop over the faces; the match list and the detections
RECURSIVE PipelineLoop(_, _, _, _)
PipelineLoop(ents, embeddings, faces, i) ==
    IF i = 0 THEN [matches |-> <<>>, detection_meta |-> <<>>, match_idx |-> <<>>,
                   per_face |-> <<>>]
    ELSE LET rest == PipelineLoop(ents, embeddings, faces, i - 1)
             f == PipelineFace(ents, embeddings, faces[i].emb, faces[i].has_mask)
         IN [matches |-> rest.matches \o f.matches,
             detection_meta |-> Append(rest.detection_meta, f.detection),
             match_idx |-> Append(rest.match_idx, f.match_idx),
             per_face |-> Append(rest.per_face, f.matches)]

\* what detect_faces_and_crops and face_to_embedding yield for one face
Faces == [emb : EmbeddingValues \cup {NoneEmb}, has_mask : BOOLEAN]

FaceLists == UNION {[1..n -> Faces] : n \in 0..MaxFaces}

MObserved(op, query, threshold, faces, result, out) ==
    [op |-> op, query |-> query, threshold |-> threshold, faces |-> faces,
     result |-> result, out |-> out]

NoOut == [matches |-> <<>>, detection_meta |-> <<>>, match_idx |-> <<>>, per_face |-> <<>>]

NoMCall == MObserved("none", NoneEmb, 0, <<>>, [idx |-> NoMatch, score |-> 0], NoOut)

\* a direct call of detector.match_embedding on the gallery's embeddings
MatchEmbeddingCall(query, threshold) ==
    /\ mcall.op = "none"
    /\ mcall' = MObserved("match", query, threshold, <<>>,
                          MatchEmbedding(query, BundleEmbeddings(entries, Len(entries)), threshold),
                          NoOut)
    /\ UNCHANGED <<entries, gateVars, thread, restVars>>

\* _run_detection_pipeline on an image with the given faces (lines 328-416)
RunDetectionPipeline(faces) ==
    /\ mcall.op = "none"
    /\ mcall' = MObserved("pipeline", NoneEmb, 55, faces, [idx |-> NoMatch, score |-> 0],
                          IF faces = <<>> THEN NoOut
                          ELSE PipelineLoop(entries, BundleEmbeddings(entries, Len(entries)),
                                            faces, Len(faces)))
    /\ UNCHANGED <<entries, gateVars, thread, restVars>>

\* the caller takes the result; the next request may come in
MatchReturn ==
    /\ mcall.op # "none"
    /\ mcall' = NoMCall
    /\ UNCHANGED <<entries, gateVars, thread, restVars>>

MatchNext ==
    \/ \E query \in EmbeddingValues \cup {NoneEmb}, threshold \in Thresholds :
          MatchEmbeddingCall(query, threshold)
    \/ \E faces \in FaceLists : RunDetectionPipeline(faces)
    \/ MatchReturn

----------------------------------------------------------------------------
(* _notify_alert run by two threads at once: detect_image calls it on the   *)
(* event-loop thread (line 1101) while the frame_stream generator of        *)
(* detect_video is iterated on a worker thread (line 1171).  The function   *)
(* takes no lock, so the threads interleave between its reads and writes of *)
(* the two globals.                                                         *)

Threads == {"image", "video"}

\* the batches the two endpoints pass: named matches out of _serialize_matches
ConcBatches ==
    {<<[name |-> "X", score |-> 80]>>, <<[name |-> "Y", score |-> 90]>>,
     <<[name |-> "X", score |-> 80], [name |-> "Y", score |-> 90]>>}

\* the threads are followed for one cooldown period after the first call
MaxConcTime == BootTime + ALERT_COOLDOWN

Local(pc, matches, now, i, unique, tmp, fired) ==
    [pc |-> pc, matches |-> matches, now |-> now, i |-> i, unique |-> unique,
     tmp |-> tmp, fired |-> fired]

EmptyDict == [n \in {} |-> 0]

IdleThread == Local("idle", <<>>, 0, 0, <<>>, EmptyDict, FALSE)

NoThreads == [t \in Threads |-> IdleThread]

\* lines 694-703: entry, now = time.time()
Enter(t, matches) ==
    /\ thread[t].pc = "idle"
    /\ thread' = [thread EXCEPT ![t] =
          Local(IF matches = <<>> THEN "done" ELSE "loop", matches, clock, 1, <<>>,
                EmptyDict, FALSE)]
    /\ UNCHANGED <<gateVars, matchVars, restVars>>

\* lines 705-719: one iteration, reading _recently_alerted_criminals
LoopStep(t) ==
    LET l == thread[t] IN
    /\ l.pc = "loop"
    /\ l.i <= Len(l.matches)
    /\ thread' = [thread EXCEPT ![t] =
          [l EXCEPT !.unique = LoopBody(l.unique, l.matches[l.i], l.now,
                                        recently_alerted_criminals),
                    !.i = l.i + 1]]
    /\ UNCHANGED <<gateVars, matchVars, restVars>>

\* lines 722-724: if not unique_matches: return
CheckEmpty(t) ==
    LET l == thread[t] IN
    /\ l.pc = "loop"
    /\ l.i > Len(l.matches)
    /\ thread' = [thread EXCEPT ![t] =
          [l EXCEPT !.pc = IF l.unique = <<>> THEN "done" ELSE "global"]]
    /\ UNCHANGED <<gateVars, matchVars, restVars>>

\* lines 727-730: the global cooldown check, reading _last_alert_time
GlobalCheck(t) ==
    LET l == thread[t] IN
    /\ l.pc = "global"
    /\ thread' = [thread EXCEPT ![t] =
          [l EXCEPT !.pc = IF GlobalCooldownActive(l.now, last_alert_time)
                           THEN "done" ELSE "write_last"]]
    /\ UNCHANGED <<gateVars, matchVars, restVars>>

\* line 733: _last_alert_time = now
WriteLast(t) ==
    LET l == thread[t] IN
    /\ l.pc = "write_last"
    /\ last_alert_time' = l.now
    /\ thread' = [thread EXCEPT ![t] = [l EXCEPT !.pc = "mark", !.i = 1]]
    /\ UNCHANGED <<clock, recently_alerted_criminals, call, hist, matchVars, restVars>>

\* lines 734-735: _recently_alerted_criminals[name] = now, one name at a time
MarkStep(t) ==
    LET l == thread[t] IN
    /\ l.pc = "mark"
    /\ recently_alerted_criminals' =
          Put(recently_alerted_criminals, l.unique[l.i].name, l.now)
    /\ thread' = [thread EXCEPT ![t] =
          [l EXCEPT !.i = l.i + 1,
                    !.pc = IF l.i = Len(l.unique) THEN "prune" ELSE "mark"]]
    /\ UNCHANGED <<clock, last_alert_time, call, hist, matchVars, restVars>>

\* lines 738-739, right-hand side: the comprehension builds the pruned dict
PruneRead(t) ==
    LET l == thread[t] IN
    /\ l.pc = "prune"
    /\ thread' = [thread EXCEPT ![t] =
          [l EXCEPT !.pc = "assign",
                    !.tmp = PruneOld(recently_alerted_criminals,
                                     l.now - (ALERT_COOLDOWN * 2))]]
    /\ UNCHANGED <<gateVars, matchVars, restVars>>

\* line 739, assignment: the global is rebound to the pruned dict
PruneWrite(t) ==
    LET l == thread[t] IN
    /\ l.pc = "assign"
    /\ recently_alerted_criminals' = l.tmp
    /\ thread' = [thread EXCEPT ![t] = [l EXCEPT !.pc = "dispatch"]]
    /\ UNCHANGED <<clock, last_alert_time, call, hist, matchVars, restVars>>

\* lines 743-812: the alert is composed and sent
Dispatch(t) ==
    LET l == thread[t] IN
    /\ l.pc = "dispatch"
    /\ thread' = [thread EXCEPT ![t] =
          [l EXCEPT !.pc = "done", !.fired = TRUE,
                    !.unique = SortByScoreDesc(l.unique, Len(l.unique))]]
    /\ UNCHANGED <<gateVars, matchVars, restVars>>

\* the clock advances while the threads run
ConcTick ==
    /\ clock < MaxConcTime
    /\ clock' = clock + 1
    /\ UNCHANGED <<last_alert_time, recently_alerted_criminals, call, hist, matchVars, thread, restVars>>

ConcNext ==
    \/ \E t \in Threads, matches \in ConcBatches : Enter(t, matches)
    \/ \E t \in Threads : LoopStep(t)
    \/ \E t \in Threads : CheckEmpty(t)
    \/ \E t \in Threads : GlobalCheck(t)
    \/ \E t \in Threads : WriteLast(t)
    \/ \E t \in Threads : MarkStep(t)
    \/ \E t \in Threads : PruneRead(t)
    \/ \E t \in Threads : PruneWrite(t)
    \/ \E t \in Threads : Dispatch(t)
    \/ ConcTick

----------------------------------------------------------------------------
(* backend_adapter.py: _serialize_matches.  Scores are Python floats,      *)
(* counted here in units of 0.00001 so that rounding to 4 decimals shows.  *)

\* round(float(score), 4); no score used here lies on a rounding tie
Round4(score) == ((score + 5) \div 10) * 10

\* what the list handed to _serialize_matches may hold: match dicts as the
\* pipeline appends them (name, float score or None), and anything else
SerializeItems ==
    {[kind |-> "dict", name |-> "X", score |-> 80001],
     [kind |-> "dict", name |-> "X", score |-> 80004],
     [kind |-> "dict", name |-> "X", score |-> 80006],
     [kind |-> "dict", name |-> "X", score |-> 95000],
     [kind |-> "dict", name |-> "X", score |-> NoScore],
     [kind |-> "dict", name |-> "Y", score |-> 80001],
     [kind |-> "dict", name |-> "Y", score |-> NoScore],
     [kind |-> "dict", name |-> Missing, score |-> 80004],
     [kind |-> "dict", name |-> "Unknown", score |-> 80001],
     [kind |-> "other", name |-> Missing, score |-> NoScore]}

SerializeInputs == UNION {[1..n -> SerializeItems] : n \in 0..MaxBatch}

\* line 295: item.get("name", "Unknown")
SerializeName(item) == IF item.name = Missing THEN "Unknown" ELSE item.name

\* line 297: key = (name, None if score is None else round(float(score), 4))
SerializeKeyMut(item) == <<SerializeName(item), item.score>>
SerializeKey(item) ==
    <<SerializeName(item), IF item.score = NoScore THEN NoScore ELSE Round4(item.score)>>

\* lines 290-306: the loop with its seen set
RECURSIVE SerializeLoop(_, _)
SerializeLoop(matches, i) ==
    IF i = 0 THEN [safe |-> <<>>, seen |-> {}]
    ELSE LET acc == SerializeLoop(matches, i - 1)
             item == matches[i]
         IN IF item.kind # "dict" THEN acc
            ELSE IF SerializeKey(item) \in acc.seen THEN acc
            ELSE [safe |-> Append(acc.safe, [kind |-> "dict", name |-> SerializeName(item),
                                             score |-> item.score]),
                  seen |-> acc.seen \cup {SerializeKey(item)}]

\* _serialize_matches, lines 286-307
SerializeMatches(matches) == SerializeLoop(matches, Len(matches)).safe

SObserved(op, matches, out) == [op |-> op, matches |-> matches, out |-> out]

NoSCall == SObserved("none", <<>>, <<>>)

\* a request handler serialises the matches of one image or frame
SerializeMatchesCall(matches) ==
    /\ scall.op = "none"
    /\ scall' = SObserved("serialize", matches, SerializeMatches(matches))
    /\ UNCHANGED <<gateVars, matchVars, thread, det, dcall, loader, moreVars>>

\* line 1191: the matches collected from earlier calls are serialised again
SerializeAggregated ==
    /\ scall.op = "serialize"
    /\ scall' = SObserved("aggregate", scall.out, SerializeMatches(scall.out))
    /\ UNCHANGED <<gateVars, matchVars, thread, det, dcall, loader, moreVars>>

\* the payload is sent
SerializeReturn ==
    /\ scall.op # "none"
    /\ scall' = NoSCall
    /\ UNCHANGED <<gateVars, matchVars, thread, det, dcall, loader, moreVars>>

SerializeNext ==
    \/ \E matches \in SerializeInputs : SerializeMatchesCall(matches)
    \/ SerializeAggregated
    \/ SerializeReturn

----------------------------------------------------------------------------
(* detector.py: the lazy loaders, detect_mask and detect_faces_and_crops. *)
(* Raw MTCNN coordinates are floats, counted here in half pixels; cascade  *)
(* detections are integer rectangles that lie inside the image.            *)

\* width and height of the image in pixels
ImageSize == 4
\* most raw boxes a detector backend reports for one image
MaxBoxes == 2
\* load attempts beyond which calls are no longer followed
MaxLoads == 2

\* lines 31-40: the module globals, and how often each model load ran;
\* detector is backend_adapter's name for the module, None when its import
\* failed (backend_adapter.py lines 49-54)
NoDet ==
    [detector |-> "module",
     mask_model_loaded |-> FALSE, mask_model |-> "None",
     facenet_available |-> "None", USE_FACENET |-> FALSE,
     mtcnn |-> "None", resnet |-> "None",
     mask_loads |-> 0, facenet_loads |-> 0]

\* what the environment does to a mask-model load: load_model missing or no
\* model file, a successful load_model, an exception in load_model
MaskEnvs == {"unavailable", "ok", "error"}

\* what the environment does to the FaceNet load
FacenetEnvs == {"ok", "error"}

\* mask_model.predict: a mask, no mask, or an exception
Predictions == {"mask", "nomask", "raise"}

\* _load_mask_model, lines 42-63
LoadMaskModelMut(d, menv) ==
    IF d.mask_model_loaded THEN [d |-> d, result |-> d.mask_model]
    ELSE IF menv = "unavailable"
         THEN [d |-> [d EXCEPT !.mask_model_loaded = TRUE], result |-> "None"]
    ELSE IF menv = "ok"
         THEN [d |-> [d EXCEPT !.mask_model = "model", !.mask_model_loaded = TRUE,
                               !.mask_loads = @ + 1],
               result |-> "model"]
    ELSE [d |-> [d EXCEPT !.mask_loads = @ + 1], result |-> "None"]
LoadMaskModel(d, menv) ==
    IF d.mask_model_loaded THEN [d |-> d, result |-> d.mask_model]
    ELSE IF menv = "unavailable"
         THEN [d |-> [d EXCEPT !.mask_model_loaded = TRUE], result |-> "None"]
    ELSE IF menv = "ok"
         THEN [d |-> [d EXCEPT !.mask_model = "model", !.mask_model_loaded = TRUE,
                               !.mask_loads = @ + 1],
               result |-> "model"]
    ELSE [d |-> [d EXCEPT !.mask_model_loaded = TRUE, !.mask_loads = @ + 1],
          result |-> "None"]

\* _load_facenet, lines 65-92
LoadFacenet(d, fenv) ==
    IF d.facenet_available # "None" THEN [d |-> d, result |-> d.USE_FACENET]
    ELSE IF fenv = "ok"
         THEN [d |-> [d EXCEPT !.mtcnn = "model", !.resnet = "model", !.USE_FACENET = TRUE,
                               !.facenet_available = "True", !.facenet_loads = @ + 1],
               result |-> TRUE]
    ELSE [d |-> [d EXCEPT !.facenet_available = "False", !.USE_FACENET = FALSE,
                          !.mtcnn = "None", !.resnet = "None", !.facenet_loads = @ + 1],
          result |-> FALSE]

\* detect_mask, lines 99-118; has_img is "face_img is not None"
DetectMask(d, has_img, menv, pred) ==
    LET l == LoadMaskModel(d, menv) IN
    IF l.result = "None" \/ ~has_img THEN [d |-> l.d, result |-> FALSE]
    ELSE [d |-> l.d, result |-> (pred = "mask")]

\* round() of a float given in half pixels: half to even
RoundHalfEven(h) ==
    LET f == h \div 2 IN
    IF h % 2 = 0 THEN f ELSE IF f % 2 = 0 THEN f ELSE f + 1

\* line 141: int(max(0, round(coord)))
ClampCoord(h) == IF RoundHalfEven(h) < 0 THEN 0 ELSE RoundHalfEven(h)

\* line 141: x1, y1, x2, y2 of a raw MTCNN box
NeuralBox(raw) == [i \in 1..4 |-> ClampCoord(raw[i])]

\* line 142: if x2 <= x1 or y2 <= y1: continue
Dropped(b) == b[3] <= b[1] \/ b[4] <= b[2]

\* line 146: the box lies inside the image array
InsideImage(b) ==
    /\ 0 <= b[2] /\ b[2] < b[4] /\ b[4] <= ImageSize
    /\ 0 <= b[1] /\ b[1] < b[3] /\ b[3] <= ImageSize

NoBoxes == [boxes |-> <<>>, crops |-> <<>>, mask_flags |-> <<>>]

\* lines 140-150: one MTCNN box; a crop is the rectangle cut from the image
NeuralStepMut(acc, raw, menv, pred) ==
    LET b == NeuralBox(raw)
        dm == DetectMask(acc.d, InsideImage(b), menv, pred)
    IN IF Dropped(b)
       THEN [acc EXCEPT !.d = dm.d, !.mask_flags = Append(@, dm.result)]
       ELSE [d |-> dm.d, boxes |-> Append(acc.boxes, b), crops |-> Append(acc.crops, b),
             mask_flags |-> Append(acc.mask_flags, dm.result)]
NeuralStep(acc, raw, menv, pred) ==
    LET b == NeuralBox(raw)
        dm == DetectMask(acc.d, InsideImage(b), menv, pred)
    IN IF Dropped(b) THEN acc
       ELSE [d |-> dm.d, boxes |-> Append(acc.boxes, b), crops |-> Append(acc.crops, b),
             mask_flags |-> Append(acc.mask_flags, dm.result)]

\* lines 162-168: one cascade detection (x, y, w, h)
CascadeStep(acc, raw, menv, pred) ==
    LET b == <<raw[1], raw[2], raw[1] + raw[3], raw[2] + raw[4]>>
        dm == DetectMask(acc.d, TRUE, menv, pred)
    IN [d |-> dm.d, boxes |-> Append(acc.boxes, b), crops |-> Append(acc.crops, b),
        mask_flags |-> Append(acc.mask_flags, dm.result)]

\* a result with nothing detected, as the returns at lines 128 and 138
NoResult(d) == [d |-> d, boxes |-> <<>>, crops |-> <<>>, mask_flags |-> <<>>]

\* the loops at lines 140 and 162
RECURSIVE BoxLoop(_, _, _, _, _, _)
BoxLoop(d, neural, raws, menv, preds, i) ==
    IF i = 0 THEN NoResult(d)
    ELSE LET acc == BoxLoop(d, neural, raws, menv, preds, i - 1) IN
         IF neural THEN NeuralStep(acc, raws[i], menv, preds[i])
         ELSE CascadeStep(acc, raws[i], menv, preds[i])

\* line 135: if _load_facenet() and _mtcnn is not None
UsesNeural(d, fenv) ==
    LET lf == LoadFacenet(d, fenv) IN lf.result /\ lf.d.mtcnn # "None"

\* the returned triple, with the backend that produced it
WithPath(r, path) ==
    [d |-> r.d, boxes |-> r.boxes, crops |-> r.crops, mask_flags |-> r.mask_flags,
     path |-> path]

\* detect_faces_and_crops, lines 121-169; an empty raws on the neural path
\* is _mtcnn.detect returning None
DetectFacesAndCrops(d, has_image, raws, fenv, menv, preds) ==
    IF ~has_image THEN WithPath(NoResult(d), "none")
    ELSE IF UsesNeural(d, fenv)
    THEN WithPath(IF raws = <<>> THEN NoResult(LoadFacenet(d, fenv).d)
                  ELSE BoxLoop(LoadFacenet(d, fenv).d, TRUE, raws, menv, preds, Len(raws)),
                  "neural")
    ELSE WithPath(BoxLoop(LoadFacenet(d, fenv).d, FALSE, raws, menv, preds, Len(raws)),
                  "cascade")

\* what a backend reports for one face: a raw MTCNN box (x1, y1, x2, y2)
\* in half pixels, and what mask_model.predict does with its crop.  The
\* boxes lie inside the image, partly before it, wholly before it, round to
\* nothing, partly beyond it and wholly beyond it.
NeuralFaces ==
    {[raw |-> <<2, 2, 6, 6>>, pred |-> "mask"],
     [raw |-> <<2, 2, 6, 6>>, pred |-> "nomask"],
     [raw |-> <<2, 2, 6, 6>>, pred |-> "raise"],
     [raw |-> <<-3, 2, 4, 6>>, pred |-> "mask"],
     [raw |-> <<2, -6, 6, -3>>, pred |-> "mask"],
     [raw |-> <<3, 2, 5, 6>>, pred |-> "nomask"],
     [raw |-> <<ImageSize, 2, 3 * ImageSize - 1, 6>>, pred |-> "mask"],
     [raw |-> <<2, 2 * ImageSize + 2, 6, 3 * ImageSize + 1>>, pred |-> "mask"]}

\* cascade detections (x, y, w, h): detectMultiScale reports rectangles
\* inside the image, of positive size
CascadeFaces ==
    {[raw |-> <<0, 0, 2, 2>>, pred |-> "mask"],
     [raw |-> <<1, 1, ImageSize - 1, ImageSize - 1>>, pred |-> "nomask"],
     [raw |-> <<0, 1, 2, ImageSize - 1>>, pred |-> "raise"]}

FaceSeqs(neural, n) ==
    UNION {[1..k -> IF neural THEN NeuralFaces ELSE CascadeFaces] : k \in 0..n}

Raws(found) == [i \in 1..Len(found) |-> found[i].raw]

Preds(found) == [i \in 1..Len(found) |-> found[i].pred]

\* what the request handler holds after _unpack_pipeline_result and
\* _serialize_matches; has_detections is "detections is not None"
NoImage ==
    [len |-> 0, annotated |-> "None", matches |-> <<>>, has_detections |-> FALSE,
     detections |-> <<>>, drawn |-> <<>>, safe_matches |-> <<>>]

\* before is the detector state the call started from
DObserved(op, before, result, raws, out, image) ==
    [op |-> op, before |-> before, result |-> result, raws |-> raws, out |-> out,
     image |-> image]

NoDCall == DObserved("none", NoDet, "None", <<>>, NoBoxes, NoImage)

Countable(d) == d.mask_loads < MaxLoads /\ d.facenet_loads < MaxLoads

\* a call of _load_mask_model
LoadMaskModelCall(menv) ==
    /\ dcall.op = "none"
    /\ det.detector = "module"
    /\ Countable(det)
    /\ LET l == LoadMaskModel(det, menv) IN
       /\ det' = l.d
       /\ dcall' = DObserved("load_mask", det, l.result, <<>>, NoBoxes, NoImage)
    /\ UNCHANGED <<gateVars, matchVars, thread, loader, scall, moreVars>>

\* a call of _load_facenet
LoadFacenetCall(fenv) ==
    /\ dcall.op = "none"
    /\ det.detector = "module"
    /\ Countable(det)
    /\ LET l == LoadFacenet(det, fenv) IN
       /\ det' = l.d
       /\ dcall' = DObserved("load_facenet", det, IF l.result THEN "True" ELSE "False", <<>>, NoBoxes, NoImage)
    /\ UNCHANGED <<gateVars, matchVars, thread, loader, scall, moreVars>>

\* a call of detect_mask on a crop or on None
DetectMaskCall(has_img, menv, pred) ==
    /\ dcall.op = "none"
    /\ det.detector = "module"
    /\ Countable(det)
    /\ LET r == DetectMask(det, has_img, menv, pred) IN
       /\ det' = r.d
       /\ dcall' = DObserved("detect_mask", det, IF r.result THEN "True" ELSE "False", <<>>, NoBoxes, NoImage)
    /\ UNCHANGED <<gateVars, matchVars, thread, loader, scall, moreVars>>

\* a call of detect_faces_and_crops on an image (or on None, which has no boxes)
DetectFacesAndCropsCall ==
    /\ dcall.op = "none"
    /\ det.detector = "module"
    /\ Countable(det)
    /\ \E has_image \in BOOLEAN, fenv \in FacenetEnvs, menv \in MaskEnvs :
          \E found \in FaceSeqs(UsesNeural(det, fenv), MaxBoxes) :
             /\ has_image \/ found = <<>>
             /\ \E r \in {DetectFacesAndCrops(det, has_image, Raws(found), fenv, menv,
                                               Preds(found))} :
                   /\ det' = r.d
                   /\ dcall' = DObserved("detect", det, r.path, Raws(found),
                                         [boxes |-> r.boxes, crops |-> r.crops,
                                          mask_flags |-> r.mask_flags],
                                         NoImage)
    /\ UNCHANGED <<gateVars, matchVars, thread, loader, scall, moreVars>>

\* where detect_faces_and_crops may raise: nowhere, in the array conversion
\* at lines 130-131 (before the loaders run), or in the backend's detect
\* call at lines 136 and 154 (after _load_facenet)
RaisePoints == {"no", "convert", "detect"}

\* detector.face_to_embedding on a crop: an embedding, or None when it fails
CropEmbeddings == {<<3, 4>>, NoneEmb}

\* galleries of the image requests: empty, or Alice alone
ImageGalleries ==
    {g \in Galleries : Len(g) <= 1 /\ \A i \in 1..Len(g) : g[i].embedding = <<3, 4>>}

Min3(a, b, c) == IF a <= b /\ a <= c THEN a ELSE IF b <= c THEN b ELSE c

\* line 374: x1, y1, x2, y2 = [int(max(0, b)) for b in box]
DrawnBox(box) == [k \in 1..4 |-> IF box[k] < 0 THEN 0 ELSE box[k]]

\* lines 338-341: the detector call inside its try/except
GuardedDetect(d, raise, raws, fenv, menv, preds) ==
    IF raise = "convert" THEN WithPath(NoResult(d), "raised")
    ELSE IF raise = "detect" THEN WithPath(NoResult(LoadFacenet(d, fenv).d), "raised")
    ELSE DetectFacesAndCrops(d, TRUE, raws, fenv, menv, preds)

\* lines 343-355: if box_count == 0 or crop_count == 0: return pil_image, []
NoFacesMut(boxes, crops) == FALSE
NoFaces(boxes, crops) == Len(boxes) = 0 \/ Len(crops) = 0

\* line 335 and line 355: return pil_image, []
OriginalImage ==
    [len |-> 2, annotated |-> "pil_image", matches |-> <<>>, detection_meta |-> <<>>,
     drawn |-> <<>>]

\* lines 357-416: the loop over zip(boxes, face_crops, mask_flags) and the
\* 3-tuple it returns; r is what the detector returned
AnnotatedImage(r, ents, embs) ==
    LET n == Min3(Len(r.boxes), Len(r.crops), Len(r.mask_flags))
        faces == [i \in 1..n |-> [emb |-> embs[i], has_mask |-> r.mask_flags[i]]]
        out == PipelineLoop(ents, BundleEmbeddings(ents, Len(ents)), faces, n)
    IN [len |-> 3, annotated |-> "annotated", matches |-> out.matches,
        detection_meta |-> out.detection_meta,
        drawn |-> [i \in 1..n |-> DrawnBox(r.boxes[i])]]

\* lines 338-416, given what the guarded detector call returned
PipelineAfterDetect(r, ents, embs) ==
    [d |-> r.d,
     detected |-> [boxes |-> r.boxes, crops |-> r.crops, mask_flags |-> r.mask_flags],
     result |-> IF NoFaces(r.boxes, r.crops) THEN OriginalImage
                ELSE AnnotatedImage(r, ents, embs)]

\* _run_detection_pipeline, lines 328-416: the tuple it returns (len is the
\* tuple's length), what the detector returned and the state it leaves
RunDetectionPipelineOnImage(d, ents, raise, raws, embs, fenv, menv, preds) ==
    IF d.detector = "None"
    THEN [d |-> d, detected |-> NoBoxes, result |-> OriginalImage]
    ELSE PipelineAfterDetect(GuardedDetect(d, raise, raws, fenv, menv, preds), ents, embs)

\* _unpack_pipeline_result, lines 816-844
UnpackPipelineResult(result, fallback_image) ==
    IF result.len = 3
    THEN [annotated |-> result.annotated, matches |-> result.matches,
          has_detections |-> TRUE, detections |-> result.detection_meta,
          drawn |-> result.drawn]
    ELSE IF result.len = 2
    THEN [annotated |-> result.annotated, matches |-> result.matches,
          has_detections |-> FALSE, detections |-> <<>>, drawn |-> <<>>]
    ELSE [annotated |-> fallback_image, matches |-> <<>>,
          has_detections |-> FALSE, detections |-> <<>>, drawn |-> <<>>]

\* the pipeline's scores are hundredths; the serialiser counts in 0.00001
FineMatches(matches) ==
    [i \in 1..Len(matches) |->
        [kind |-> "dict", name |-> matches[i].name, score |-> matches[i].score * 1000]]

CoarseMatches(safe) ==
    [i \in 1..Len(safe) |-> [name |-> safe[i].name, score |-> safe[i].score \div 1000]]

\* lines 1095-1101: the handler unpacks the pipeline's tuple, serialises the
\* matches and alerts when there are any; p is what the pipeline returned
HandleResult(raise, raws, p, u, safe_matches) ==
    /\ det' = p.d
    /\ dcall' = DObserved("detect_image", det, raise, raws, p.detected,
                          [len |-> p.result.len, annotated |-> u.annotated,
                           matches |-> u.matches, has_detections |-> u.has_detections,
                           detections |-> u.detections, drawn |-> u.drawn,
                           safe_matches |-> safe_matches])
    /\ IF safe_matches # <<>>
       THEN NotifyAlertBody(CoarseMatches(safe_matches))
       ELSE UNCHANGED gateVars

\* lines 1095-1096 on the pipeline's result
UnpackAndHandle(raise, raws, p) ==
    HandleResult(raise, raws, p, UnpackPipelineResult(p.result, "pil_image"),
                 SerializeMatches(FineMatches(UnpackPipelineResult(p.result, "pil_image").matches)))

\* detect_image, lines 1069-1111: pipeline, unpacking, serialising, and the
\* alert when there are matches
DetectImage ==
    /\ dcall.op = "none"
    /\ call.kind = "none"
    /\ Countable(det)
    /\ \E raise \in RaisePoints, fenv \in FacenetEnvs, menv \in MaskEnvs :
          \E found \in FaceSeqs(UsesNeural(det, fenv), MaxFaces) :
             /\ (raise # "no" \/ det.detector = "None") => found = <<>>
             /\ \E embs \in [1..Len(found) -> CropEmbeddings] :
                   \E p \in {RunDetectionPipelineOnImage(det, entries, raise, Raws(found),
                                                         embs, fenv, menv, Preds(found))} :
                      UnpackAndHandle(raise, Raws(found), p)
    /\ UNCHANGED <<matchVars, thread, loader, scall, moreVars>>

\* the caller takes the result
DetectReturn ==
    /\ dcall.op # "none"
    /\ dcall' = NoDCall
    /\ call' = NoCall
    /\ UNCHANGED <<clock, last_alert_time, recently_alerted_criminals, hist, matchVars, thread,
                   det, loader, scall, moreVars>>

DetectNext ==
    \/ \E menv \in MaskEnvs : LoadMaskModelCall(menv)
    \/ \E fenv \in FacenetEnvs : LoadFacenetCall(fenv)
    \/ \E has_img \in BOOLEAN, menv \in MaskEnvs, pred \in Predictions :
          DetectMaskCall(has_img, menv, pred)
    \/ DetectFacesAndCropsCall
    \/ DetectImage
    \/ DetectReturn

----------------------------------------------------------------------------
(* detector.py: two request threads inside the lazy loaders.  Neither      *)
(* loader takes a lock, so a thread can be pre-empted between its check of *)
(* the flag, the model load and the assignment that sets the flag.         *)

LoaderFns == {"_load_facenet", "_load_mask_model"}

\* a thread's position in a loader, and what its last call returned
IdleLoader == [pc |-> "idle", fn |-> "none", outcome |-> "none", result |-> "none"]

NoLoaders == [t \in Threads |-> IdleLoader]

\* lines 45-50 and 69-70: the thread reads the flag; it returns the
\* remembered result, or finds nothing to load, or goes on to the load
LoaderCheck(t, fn, menv) ==
    /\ loader[t].pc = "idle"
    /\ IF fn = "_load_facenet"
       THEN IF det.facenet_available # "None"
            THEN /\ loader' = [loader EXCEPT ![t] = [IdleLoader EXCEPT !.result = "remembered"]]
                 /\ UNCHANGED det
            ELSE /\ loader' = [loader EXCEPT ![t] = [IdleLoader EXCEPT !.pc = "try", !.fn = fn]]
                 /\ UNCHANGED det
       ELSE IF det.mask_model_loaded
            THEN /\ loader' = [loader EXCEPT ![t] = [IdleLoader EXCEPT !.result = "remembered"]]
                 /\ UNCHANGED det
            ELSE IF menv = "unavailable"
            THEN /\ loader' = [loader EXCEPT ![t] = [IdleLoader EXCEPT !.result = "nothing"]]
                 /\ det' = [det EXCEPT !.mask_model_loaded = TRUE]
            ELSE /\ loader' = [loader EXCEPT ![t] = [IdleLoader EXCEPT !.pc = "try", !.fn = fn]]
                 /\ UNCHANGED det
    /\ UNCHANGED <<gateVars, matchVars, thread, dcall, scall, moreVars>>

\* lines 56 and 74-82: the model load itself, which succeeds or raises
LoaderLoad(t, env) ==
    /\ loader[t].pc = "try"
    /\ loader' = [loader EXCEPT ![t].pc = "publish", ![t].outcome = env]
    /\ IF loader[t].fn = "_load_facenet"
       THEN det' = IF env = "ok"
                   THEN [det EXCEPT !.facenet_loads = @ + 1, !.mtcnn = "model",
                                    !.resnet = "model"]
                   ELSE [det EXCEPT !.facenet_loads = @ + 1]
       ELSE det' = IF env = "ok"
                   THEN [det EXCEPT !.mask_loads = @ + 1, !.mask_model = "model"]
                   ELSE [det EXCEPT !.mask_loads = @ + 1]
    /\ UNCHANGED <<gateVars, matchVars, thread, dcall, scall, moreVars>>

\* lines 58-59, 62-63, 83-85 and 88-92: the flag is set and the call returns
LoaderPublish(t) ==
    /\ loader[t].pc = "publish"
    /\ loader' = [loader EXCEPT ![t] = [IdleLoader EXCEPT !.result = loader[t].outcome]]
    /\ IF loader[t].fn = "_load_facenet"
       THEN det' = IF loader[t].outcome = "ok"
                   THEN [det EXCEPT !.USE_FACENET = TRUE, !.facenet_available = "True"]
                   ELSE [det EXCEPT !.facenet_available = "False", !.USE_FACENET = FALSE,
                                    !.mtcnn = "None", !.resnet = "None"]
       ELSE det' = [det EXCEPT !.mask_model_loaded = TRUE]
    /\ UNCHANGED <<gateVars, matchVars, thread, dcall, scall, moreVars>>

LoadNext ==
    \/ \E t \in Threads, fn \in LoaderFns, menv \in MaskEnvs : LoaderCheck(t, fn, menv)
    \/ \E t \in Threads, env \in FacenetEnvs : LoaderLoad(t, env)
    \/ \E t \in Threads : LoaderPublish(t)

----------------------------------------------------------------------------
(* backend_adapter.py: detect_video and its generator frame_stream.  The   *)
(* handler opens the capture and returns the generator; the server then    *)
(* pulls chunks from it, or closes it when the client goes away.           *)

\* line 1138: frame_limit = 600, scaled down
frame_limit == 2
\* most frames a video file holds
MaxFrames == 3

\* line 1148: frame_step = max(1, int(round(source_fps / target_fps)))
FrameSteps == {1, 2}

\* where a processed frame may raise: nowhere, in the conversion and the
\* pipeline of lines 1163-1167, or in the encoding of lines 1174-1183
FrameRaises == {"no", "pipeline", "encode"}

\* the serialised matches of one processed frame
FrameMatches == {<<>>, <<[name |-> "X", score |-> 80]>>}

\* tmp is the temporary file, cap the capture handle, pc the position of
\* the request: idle, rejected, unstarted (generator created, body not yet
\* entered), suspended (at the yield of line 1183), final (at the yield of
\* line 1192), done, failed, closed
NoVideo ==
    [pc |-> "idle", tmp |-> "none", cap |-> "none", length |-> 0, frame_step |-> 1,
     frame_count |-> 0, processed |-> 0, alert_sent |-> FALSE, notified |-> 0,
     notified_at |-> 0, first_match |-> 0, ended_by |-> "none"]

\* lines 1154-1161: the loop up to the next frame that is processed; the
\* file holds v.length frames, so cap.read() fails once they are consumed
RECURSIVE NextFrame(_)
NextFrame(v) ==
    IF ~(v.frame_count < frame_limit) THEN [v EXCEPT !.ended_by = "limit"]
    ELSE IF ~(v.frame_count < v.length) THEN [v EXCEPT !.ended_by = "eof"]
    ELSE LET w == [v EXCEPT !.frame_count = @ + 1] IN
         IF w.frame_step > 1 /\ (w.frame_count - 1) % w.frame_step # 0
         THEN NextFrame(w)
         ELSE w

\* lines 1184-1189: finally: cap.release(); os.remove(tmp_path)
Released(v) == [v EXCEPT !.cap = "released", !.tmp = "removed"]

\* lines 1168-1172: the alert of a frame with matches
AlertedMut(v, matches) ==
    IF matches # <<>>
    THEN [v EXCEPT !.notified = @ + 1,
                   !.notified_at = IF v.notified = 0 THEN v.processed + 1 ELSE @,
                   !.first_match = IF @ = 0 THEN v.processed + 1 ELSE @]
    ELSE v
Alerted(v, matches) ==
    IF matches = <<>> THEN v
    ELSE IF v.alert_sent THEN [v EXCEPT !.first_match = IF @ = 0 THEN v.processed + 1 ELSE @]
    ELSE [v EXCEPT !.alert_sent = TRUE, !.notified = @ + 1,
                   !.notified_at = v.processed + 1,
                   !.first_match = IF @ = 0 THEN v.processed + 1 ELSE @]

\* detect_video, lines 1115-1194: the handler up to the returned response
VideoRequest(has_data, opens, length, step) ==
    /\ video.pc = "idle"
    /\ video' =
          IF ~has_data THEN [NoVideo EXCEPT !.pc = "rejected"]
          ELSE IF ~opens THEN [NoVideo EXCEPT !.pc = "rejected", !.tmp = "removed",
                                              !.cap = "failed"]
          ELSE [NoVideo EXCEPT !.pc = "unstarted", !.tmp = "exists", !.cap = "open",
                               !.length = length, !.frame_step = step]
    /\ UNCHANGED <<gateVars, matchVars, thread, det, dcall, loader, scall,
                   chan, store, sess, shadow>>

\* the server asks the generator for its next chunk: frame_stream runs to
\* its next yield, to its end, or to the exception of a frame
StreamNext(raises, matches) ==
    /\ video.pc \in {"unstarted", "suspended"}
    /\ LET v == NextFrame(video) IN
       IF v.ended_by # "none"
       THEN /\ video' = [Released(v) EXCEPT !.pc = "final"]
            /\ UNCHANGED gateVars
       ELSE IF raises = "pipeline"
       THEN /\ video' = [Released(v) EXCEPT !.pc = "failed", !.ended_by = "exception"]
            /\ UNCHANGED gateVars
       ELSE /\ video' = IF raises = "encode"
                        THEN [Released(Alerted(v, matches)) EXCEPT
                                 !.pc = "failed", !.ended_by = "exception", !.processed = @ + 1]
                        ELSE [Alerted(v, matches) EXCEPT !.pc = "suspended",
                                                         !.processed = @ + 1]
            /\ IF Alerted(v, matches).notified # v.notified
               THEN NotifyAlertBody(matches)
               ELSE UNCHANGED gateVars
    /\ UNCHANGED <<matchVars, thread, det, dcall, loader, scall, chan, store, sess, shadow>>

\* the last chunk was taken: the generator returns
StreamFinish ==
    /\ video.pc = "final"
    /\ video' = [video EXCEPT !.pc = "done"]
    /\ UNCHANGED <<gateVars, matchVars, thread, det, dcall, loader, scall,
                   chan, store, sess, shadow>>

\* the client went away and the server closes the generator: a generator
\* whose body was never entered just ends, one suspended inside the try
\* runs its finally block
StreamClose ==
    /\ video.pc \in {"unstarted", "suspended", "final"}
    /\ video' = IF video.pc = "suspended"
                THEN [Released(video) EXCEPT !.pc = "closed", !.ended_by = "close"]
                ELSE [video EXCEPT !.pc = "closed",
                                   !.ended_by = IF @ = "none" THEN "close" ELSE @]
    /\ UNCHANGED <<gateVars, matchVars, thread, det, dcall, loader, scall,
                   chan, store, sess, shadow>>

\* the request is over; the next one may come
VideoReturn ==
    /\ video.pc \in {"rejected", "done", "failed", "closed"}
    /\ video' = NoVideo
    /\ call' = NoCall
    /\ UNCHANGED <<clock, last_alert_time, recently_alerted_criminals, hist, matchVars, thread,
                   det, dcall, loader, scall, chan, store, sess, shadow>>

\* time passes between and during requests
VideoTick ==
    /\ clock < MaxTime
    /\ clock' = clock + 1
    /\ UNCHANGED <<last_alert_time, recently_alerted_criminals, call, hist, matchVars, thread,
                   restVars>>

VideoNext ==
    \/ \E has_data \in BOOLEAN, opens \in BOOLEAN, length \in 0..MaxFrames, step \in FrameSteps :
          VideoRequest(has_data, opens, length, step)
    \/ \E raises \in FrameRaises, matches \in FrameMatches : StreamNext(raises, matches)
    \/ StreamFinish
    \/ StreamClose
    \/ VideoReturn
    \/ VideoTick

\* faces.py and the cache of backend_adapter.py.  meta is criminal_data,
\* images and embs are the .jpg and .npy files of criminal_db by file stem,
\* cache is _db_bundle_cache (valid = FALSE for None), op the faces call that
\* just returned with the store it found, load the event-loop thread inside
\* _load_db_bundle, del the worker thread inside the delete endpoint
NoGallery == [n \in {} |-> "none"]

NoOp == [kind |-> "none", name |-> "", result |-> FALSE, meta |-> NoGallery,
         images |-> {}, embs |-> NoGallery, gallery |-> NoGallery]

NoStore ==
    [meta |-> NoGallery, images |-> {}, embs |-> NoGallery,
     cache |-> [valid |-> FALSE, entries |-> NoGallery],
     op |-> NoOp,
     load |-> [pc |-> "idle", entries |-> NoGallery, got |-> NoGallery],
     del |-> [pc |-> "idle"]]
\* TOKENS, line 58: the sessions by token (tokens are numbered in the order
\* they are issued), the form values of the request that opened each, and
\* the token of the request being served
NoSess == [tokens |-> <<>>, forms |-> <<>>, used |-> 0]
\* the state of the gate of _notify_alert with lines 737-739 removed, and
\* what it and the real gate found eligible in the last call
NoShadow ==
    [recent |-> [n \in {} |-> 0], last |-> 0, fired |-> FALSE,
     eligible |-> {}, real_eligible |-> {}]

----------------------------------------------------------------------------
(* backend_adapter.py: the alert channels and the dispatch at the end of   *)
(* _notify_alert.  Python's None is written "None"; an exception leaving a *)
(* function is the result "raise".                                         *)

\* line 76: EMAIL_MAX_RETRIES = int(os.getenv("EMAIL_MAX_RETRIES", "3"))
EMAIL_MAX_RETRIES == 3

\* what one delivery attempt meets: success, an SMTPAuthenticationError, an
\* SMTP or network error, any other exception
AttemptOutcomes == {"ok", "auth", "network", "other"}

\* the outcomes the attempts of one email send would meet, in order
EmailOutcomes == [1..(EMAIL_MAX_RETRIES + 1) -> AttemptOutcomes]

\* Twilio: message sent, twilio not installed, any other exception
SmsOutcomes == {"ok", "import", "error"}

\* Pushover: posted, or requests / raise_for_status raised
PushoverOutcomes == {"ok", "error"}

\* user names, phone numbers and addresses that requests carry
Usernames == {"admin", "ops@x.org"}
Phones == {"None", "+919876543210"}
Emails == {"None", "a@x.org"}

\* "@" in s
HasAt(s) == s \in {"ops@x.org", "a@x.org", "default@x.org"}

\* lines 790-794: at least 10 digits
ValidPhone(s) == s \in {"+919876543210", "+9876543210", "+910000000000"}

\* line 797: "@" in the address and "." in what follows the last "@"
ValidEmail(s) == HasAt(s)

\* lines 71-80 and 461-476: which channels are configured and the default
\* recipients, fixed when the process starts
Configs ==
    {[sms |-> TRUE, pushover |-> TRUE, email |-> TRUE,
      default_sms |-> "+910000000000", default_email |-> "default@x.org"],
     [sms |-> TRUE, pushover |-> TRUE, email |-> TRUE,
      default_sms |-> "None", default_email |-> "None"],
     [sms |-> FALSE, pushover |-> FALSE, email |-> TRUE,
      default_sms |-> "None", default_email |-> "default@x.org"],
     [sms |-> FALSE, pushover |-> FALSE, email |-> FALSE,
      default_sms |-> "None", default_email |-> "None"]}

\* what is known of one send: how often the function was called, how many
\* delivery attempts it made, the recipient, whether an attempt failed, and
\* what the call returned
Sent(calls, attempts, to, failed, result) ==
    [calls |-> calls, attempts |-> attempts, to |-> to, failed |-> failed, result |-> result]

NotSent == Sent(0, 0, "None", FALSE, "none")

\* except Exception: ... return False
CaughtMut(result) == result
Caught(result) == IF result = "raise" THEN "False" ELSE result

\* _send_sms_alert, lines 507-533
SendSmsAlert(conf, phone_number, outcome) ==
    IF ~conf.sms THEN Sent(1, 0, phone_number, FALSE, "False")
    ELSE IF outcome = "import" THEN Sent(1, 0, phone_number, TRUE, "False")
    ELSE IF outcome = "ok" THEN Sent(1, 1, phone_number, FALSE, "True")
    ELSE Sent(1, 1, phone_number, TRUE, Caught("raise"))

\* _send_pushover_alert, lines 536-582
SendPushoverAlert(conf, outcome) ==
    IF ~conf.pushover THEN Sent(1, 0, "None", FALSE, "False")
    ELSE IF outcome = "ok" THEN Sent(1, 1, "None", FALSE, "True")
    ELSE Sent(1, 1, "None", TRUE, Caught("raise"))

\* lines 675-678: an authentication error ends the loop
StopsOnMut(outcome) == FALSE
StopsOn(outcome) == outcome = "auth"

\* lines 622-685: the attempts from number attempt on (0-based); the number
\* of connections made and what the loop ends with
RECURSIVE EmailAttempts(_, _)
EmailAttempts(outcomes, attempt) ==
    IF attempt > EMAIL_MAX_RETRIES THEN [attempts |-> 0, result |-> "False"]
    ELSE IF outcomes[attempt + 1] = "ok" THEN [attempts |-> 1, result |-> "True"]
    ELSE IF StopsOn(outcomes[attempt + 1]) THEN [attempts |-> 1, result |-> Caught("raise")]
    ELSE LET rest == EmailAttempts(outcomes, attempt + 1) IN
         [attempts |-> rest.attempts + 1,
          result |-> IF rest.result = "True" THEN "True" ELSE Caught("raise")]

\* _send_email_alert, lines 585-690
SendEmailAlert(conf, to_address, outcomes) ==
    IF to_address = "None" \/ ~conf.email THEN Sent(1, 0, to_address, FALSE, "False")
    ELSE Sent(1, EmailAttempts(outcomes, 0).attempts, to_address, outcomes[1] # "ok",
              EmailAttempts(outcomes, 0).result)

\* line 133-139: _make_session_payload; the conditional expression binds
\* weaker than "or"
MakeSessionPayload(username, phone, email) ==
    [username |-> username,
     phone |-> IF phone # "None" THEN phone ELSE username,
     email |-> IF HasAt(username)
               THEN (IF email # "None" THEN email ELSE username)
               ELSE "None"]

\* lines 765-773: phone and email of the user dict
UserEmail(user) ==
    IF user.email # "None" THEN user.email
    ELSE IF HasAt(user.username) THEN user.username
    ELSE "None"

\* lines 782-799: defaults, then validation
PhoneRecipient(conf, user) ==
    LET phone_number == IF user.phone # "None" THEN user.phone ELSE conf.default_sms IN
    IF phone_number # "None" /\ ValidPhone(phone_number) THEN phone_number ELSE "None"

EmailRecipient(conf, user) ==
    LET email_address == IF UserEmail(user) # "None" THEN UserEmail(user)
                         ELSE conf.default_email IN
    IF email_address # "None" /\ ValidEmail(email_address) THEN email_address ELSE "None"

\* what the environment does to the sends of one alert
DispatchEnvs ==
    {[sms |-> "ok", pushover |-> "ok", email |-> [i \in 1..(EMAIL_MAX_RETRIES + 1) |-> "ok"]],
     [sms |-> "error", pushover |-> "error",
      email |-> [i \in 1..(EMAIL_MAX_RETRIES + 1) |-> "network"]],
     [sms |-> "import", pushover |-> "ok",
      email |-> [i \in 1..(EMAIL_MAX_RETRIES + 1) |-> IF i = 1 THEN "other" ELSE "ok"]],
     [sms |-> "ok", pushover |-> "error",
      email |-> [i \in 1..(EMAIL_MAX_RETRIES + 1) |-> "auth"]]}

\* the channels: configuration, the function last called, and its sends
NoChan ==
    [conf |-> CHOOSE c \in Configs : c.sms /\ c.default_sms # "None",
     op |-> "none", user |-> MakeSessionPayload("admin", "None", "None"),
     sms |-> NotSent, pushover |-> NotSent, email |-> NotSent, outcomes |-> <<>>,
     raised |-> FALSE]

\* lines 801-812: the three sends of an alert that passed the gate; a send
\* that raises ends _notify_alert there
Dispatched(c, user, env) ==
    LET phone_number == PhoneRecipient(c.conf, user)
        email_address == EmailRecipient(c.conf, user)
        sms == IF phone_number # "None" /\ c.conf.sms
               THEN SendSmsAlert(c.conf, phone_number, env.sms) ELSE NotSent
        pushover == IF sms.result # "raise" /\ c.conf.pushover
                    THEN SendPushoverAlert(c.conf, env.pushover) ELSE NotSent
        email == IF sms.result # "raise" /\ pushover.result # "raise"
                    /\ email_address # "None" /\ c.conf.email
                 THEN SendEmailAlert(c.conf, email_address, env.email) ELSE NotSent
    IN [c EXCEPT !.op = "notify", !.user = user, !.sms = sms, !.pushover = pushover,
                 !.email = email, !.outcomes = IF email.calls > 0 THEN env.email ELSE <<>>,
                 !.raised = "raise" \in {sms.result, pushover.result, email.result}]

\* a call of _send_sms_alert
SendSmsCall(phone_number, outcome) ==
    /\ chan.op = "none"
    /\ chan' = [chan EXCEPT !.op = "sms", !.sms = SendSmsAlert(chan.conf, phone_number, outcome),
                            !.raised = SendSmsAlert(chan.conf, phone_number, outcome).result
                                       = "raise"]
    /\ UNCHANGED <<gateVars, matchVars, thread, det, dcall, loader, scall,
                   video, store, sess, shadow>>

\* a call of _send_pushover_alert
SendPushoverCall(outcome) ==
    /\ chan.op = "none"
    /\ chan' = [chan EXCEPT !.op = "pushover",
                            !.pushover = SendPushoverAlert(chan.conf, outcome),
                            !.raised = SendPushoverAlert(chan.conf, outcome).result = "raise"]
    /\ UNCHANGED <<gateVars, matchVars, thread, det, dcall, loader, scall,
                   video, store, sess, shadow>>

\* a call of _send_email_alert
SendEmailCall(to_address, outcomes) ==
    /\ chan.op = "none"
    /\ chan' = [chan EXCEPT !.op = "email",
                            !.email = SendEmailAlert(chan.conf, to_address, outcomes),
                            !.outcomes = outcomes,
                            !.raised = SendEmailAlert(chan.conf, to_address, outcomes).result
                                       = "raise"]
    /\ UNCHANGED <<gateVars, matchVars, thread, det, dcall, loader, scall,
                   video, store, sess, shadow>>

\* _notify_alert, lines 693-812, for the user of the request: the gate, and
\* the sends when the alert passed it
NotifyAndDispatchBody(matches, user, env) ==
    /\ chan.op = "none"
    /\ call.kind = "none"
    /\ NotifyAlertBody(matches)
    /\ chan' = IF call'.kind = "fired" THEN Dispatched(chan, user, env)
               ELSE [chan EXCEPT !.op = "notify", !.user = user]
    /\ UNCHANGED <<matchVars, thread, det, dcall, loader, scall, video, store, shadow>>

NotifyAndDispatch(matches, user, env) ==
    /\ NotifyAndDispatchBody(matches, user, env)
    /\ UNCHANGED sess

\* the caller goes on
ChanReturn ==
    /\ chan.op # "none"
    /\ chan' = [NoChan EXCEPT !.conf = chan.conf]
    /\ call' = NoCall
    /\ UNCHANGED <<clock, last_alert_time, recently_alerted_criminals, hist, matchVars, thread,
                   det, dcall, loader, scall, video, store, sess, shadow>>

\* the users of the requests: the payloads the sessions table can hold
Users == {MakeSessionPayload(u, p, e) : u \in Usernames, p \in Phones, e \in Emails}

ChannelNext ==
    \/ \E phone_number \in Phones \ {"None"}, outcome \in SmsOutcomes :
          SendSmsCall(phone_number, outcome)
    \/ \E outcome \in PushoverOutcomes : SendPushoverCall(outcome)
    \/ \E to_address \in Emails, outcomes \in EmailOutcomes : SendEmailCall(to_address, outcomes)
    \/ \E matches \in FrameMatches, user \in Users, env \in DispatchEnvs :
          NotifyAndDispatch(matches, user, env)
    \/ ChanReturn

\* the configuration is read from the environment when the process starts
ChannelInit ==
    /\ GateInit
    /\ entries = <<>>
    /\ mcall = NoMCall
    /\ thread = NoThreads
    /\ det = NoDet
    /\ dcall = NoDCall
    /\ loader = NoLoaders
    /\ scall = NoSCall
    /\ video = NoVideo
    /\ chan \in {[NoChan EXCEPT !.conf = c] : c \in Configs}
    /\ store = NoStore
    /\ sess = NoSess
    /\ shadow = NoShadow

----------------------------------------------------------------------------
(* backend_adapter.py: sessions.  login and register_user store a payload  *)
(* under a fresh token; fake_auth_header hands the payload of the          *)
(* request's token to the endpoint, which passes it to _notify_alert.      *)

MaxSessions == 2

\* the phone form field: absent, a ten-digit mobile number, a short number
FormPhones == {"None", "98765 43210", "12345"}

\* lines 861-866: login keeps digits and "+", and puts a "+" in front
LoginPhone(phone) ==
    IF phone = "None" THEN "None"
    ELSE IF phone = "98765 43210" THEN "+9876543210"
    ELSE "+12345"

\* lines 911-924: register_user wants ten digits starting with 6-9
RegisterPhoneValid(phone) == phone \in {"None", "98765 43210"}

RegisterPhone(phone) == IF phone = "None" THEN "None" ELSE "+919876543210"

\* line 869: email_clean = email or (username if "@" in username else None)
EmailClean(username, email) ==
    IF email # "None" THEN email
    ELSE IF HasAt(username) THEN username
    ELSE "None"

\* TOKENS[token] = payload, with the form values of the request
Stored(s, payload, username, email) ==
    [s EXCEPT !.tokens = Append(s.tokens, payload),
              !.forms = Append(s.forms, [username |-> username, email |-> email])]

\* login, lines 848-891: faces defines no DEFAULT_USERNAME, so every login
\* is accepted
Login(username, phone, email) ==
    /\ chan.op = "none"
    /\ Len(sess.tokens) < MaxSessions
    /\ sess' = Stored(sess, MakeSessionPayload(username, LoginPhone(phone),
                                               EmailClean(username, email)),
                      username, email)
    /\ UNCHANGED <<gateVars, matchVars, thread, det, dcall, loader, scall,
                   video, chan, store, shadow>>

\* register_user, lines 895-950: 400 for an invalid phone or a user name
\* that some session already has
RegisterUser(username, phone, email) ==
    /\ chan.op = "none"
    /\ Len(sess.tokens) < MaxSessions
    /\ sess' = IF \/ ~RegisterPhoneValid(phone)
                  \/ \E t \in DOMAIN sess.tokens : sess.tokens[t].username = username
               THEN sess
               ELSE Stored(sess, MakeSessionPayload(username, RegisterPhone(phone), email),
                           username, email)
    /\ UNCHANGED <<gateVars, matchVars, thread, det, dcall, loader, scall,
                   video, chan, store, shadow>>

\* a detection request of the session token whose frame has matches:
\* fake_auth_header, lines 142-158, then _notify_alert with that user
DetectWithSession(token, matches, env) ==
    /\ token \in DOMAIN sess.tokens
    /\ NotifyAndDispatchBody(matches, sess.tokens[token], env)
    /\ sess' = [sess EXCEPT !.used = token]

\* the request is answered
SessionReturn ==
    /\ chan.op # "none"
    /\ chan' = [NoChan EXCEPT !.conf = chan.conf]
    /\ call' = NoCall
    /\ sess' = [sess EXCEPT !.used = 0]
    /\ UNCHANGED <<clock, last_alert_time, recently_alerted_criminals, hist, matchVars, thread,
                   det, dcall, loader, scall, video, store, shadow>>

SessionNext ==
    \/ \E username \in Usernames, phone \in FormPhones, email \in Emails :
          Login(username, phone, email)
    \/ \E username \in Usernames, phone \in FormPhones, email \in Emails :
          RegisterUser(username, phone, email)
    \/ \E token \in 1..MaxSessions, matches \in FrameMatches, env \in DispatchEnvs :
          DetectWithSession(token, matches, env)
    \/ SessionReturn


----------------------------------------------------------------------------
(* backend_adapter.py: _notify_alert next to the same gate without the     *)
(* pruning of lines 737-739, both given the same calls.                    *)

\* the names of unique_matches
Eligible(matches, now, recent) ==
    LET unique == UniqueMatches(matches, Len(matches), now, recent) IN
    {unique[i].name : i \in 1..Len(unique)}

\* lines 693-735 on the unpruned state
Unpruned(sh, matches, now, real_recent) ==
    LET unique == UniqueMatches(matches, Len(matches), now, sh.recent)
        fires == matches # <<>> /\ unique # <<>> /\ ~GlobalCooldownActive(now, sh.last)
    IN [recent |-> IF fires THEN MarkAlerted(sh.recent, NewCriminals(unique), now)
                   ELSE sh.recent,
        last |-> IF fires THEN now ELSE sh.last,
        fired |-> fires,
        eligible |-> Eligible(matches, now, sh.recent),
        real_eligible |-> Eligible(matches, now, real_recent)]

\* one call of _notify_alert, given to both gates
NotifyBoth(matches) ==
    /\ call.kind = "none"
    /\ NotifyAlertBody(matches)
    /\ shadow' = Unpruned(shadow, matches, clock, recently_alerted_criminals)
    /\ UNCHANGED <<matchVars, thread, det, dcall, loader, scall, video, chan, store, sess>>

ShadowNext ==
    \/ \E matches \in Batches : NotifyBoth(matches)
    \/ Return
    \/ Tick

----------------------------------------------------------------------------
(* faces.py: the gallery store, and its cache in backend_adapter.py        *)

\* names given to the endpoints, and the pictures uploaded: two with a face
\* (the picture stands for its embedding too) and one without
Names == {"A B", "A_B", " C", "C"}
Pictures == {"f1", "f2", "noface"}

\* name.replace(' ', '_'), lines 54 and 65
Stem(name) ==
    IF name \in {"A B", "A_B"} THEN "A_B"
    ELSE IF name = " C" THEN "_C"
    ELSE "C"

\* name.strip(), line 99
Strip(name) == IF name = " C" THEN "C" ELSE name

\* del d[k]
Del(d, k) == [x \in DOMAIN d \ {k} |-> d[x]]

\* load_all_criminals, lines 79-94: the entries whose embedding file
\* exists, by name, each with the content of its embedding file
LoadAllCriminals(s) ==
    [n \in {x \in DOMAIN s.meta : s.meta[x].embedding \in DOMAIN s.embs}
       |-> s.embs[s.meta[n].embedding]]

\* add_criminal_from_pil, lines 50-76: the picture is saved first; without
\* a face the call raises there
AddCriminalFromPil(s, name, picture) ==
    IF picture = "noface"
    THEN [s EXCEPT !.images = @ \cup {Stem(name)}]
    ELSE [s EXCEPT !.images = @ \cup {Stem(name)},
                   !.embs = Put(@, Stem(name), picture),
                   !.meta = Put(@, name, [image |-> Stem(name), embedding |-> Stem(name)])]

\* delete_criminal, lines 97-116
FacesDeleteCriminal(s, name) ==
    LET key == Strip(name) IN
    IF key \notin DOMAIN s.meta THEN s
    ELSE [s EXCEPT !.images = @ \ {s.meta[key].image},
                   !.embs = Del(@, s.meta[key].embedding),
                   !.meta = Del(@, key)]

\* what delete_criminal returns
FacesDeleteResult(s, name) == Strip(name) \in DOMAIN s.meta

\* the store a call found, kept with its result
Found(s, kind, name, result) ==
    [kind |-> kind, name |-> name, result |-> result, meta |-> s.meta,
     images |-> s.images, embs |-> s.embs, gallery |-> LoadAllCriminals(s)]

\* _invalidate_db_cache, lines 244-248
InvalidateDbCache(s) == [s EXCEPT !.cache = [valid |-> FALSE, entries |-> NoGallery]]

\* a call of faces.add_criminal_from_pil
AddCall(name, picture) ==
    /\ store.op.kind = "none"
    /\ store' = [AddCriminalFromPil(store, name, picture) EXCEPT
                    !.op = Found(store, "add", name, picture # "noface")]
    /\ UNCHANGED <<gateVars, matchVars, thread, det, dcall, loader, scall,
                   video, chan, sess, shadow>>

\* a call of faces.delete_criminal
DeleteCall(name) ==
    /\ store.op.kind = "none"
    /\ store' = [FacesDeleteCriminal(store, name) EXCEPT
                    !.op = Found(store, "delete", name, FacesDeleteResult(store, name))]
    /\ UNCHANGED <<gateVars, matchVars, thread, det, dcall, loader, scall,
                   video, chan, sess, shadow>>

\* the caller goes on
StoreReturn ==
    /\ store.op.kind # "none"
    /\ store' = [store EXCEPT !.op = NoOp]
    /\ UNCHANGED <<gateVars, matchVars, thread, det, dcall, loader, scall,
                   video, chan, sess, shadow>>

StoreNext ==
    \/ \E name \in Names, picture \in Pictures : AddCall(name, picture)
    \/ \E name \in Names : DeleteCall(name)
    \/ StoreReturn

\* upload_image, lines 976-1035, an async handler: it runs on the event
\* loop between other handlers.  Both attempts of lines 998-1016 do the same
\* with the same picture; the cache is invalidated when one succeeded
UploadImage(name, picture) ==
    /\ store.load.pc = "idle"
    /\ store' = IF picture = "noface"
                THEN AddCriminalFromPil(AddCriminalFromPil(store, name, picture), name, picture)
                ELSE InvalidateDbCache(AddCriminalFromPil(store, name, picture))
    /\ UNCHANGED <<gateVars, matchVars, thread, det, dcall, loader, scall,
                   video, chan, sess, shadow>>

\* the delete endpoint, lines 1052-1064, a plain def: it runs on a worker
\* thread.  First faces.delete_criminal; 404 when it returns False
DeleteStore(name) ==
    /\ store.del.pc = "idle"
    /\ store' = [FacesDeleteCriminal(store, name) EXCEPT
                    !.del.pc = IF FacesDeleteResult(store, name) THEN "deleted" ELSE "idle"]
    /\ UNCHANGED <<gateVars, matchVars, thread, det, dcall, loader, scall,
                   video, chan, sess, shadow>>

\* line 1063: then _invalidate_db_cache()
DeleteInvalidate ==
    /\ store.del.pc = "deleted"
    /\ store' = [InvalidateDbCache(store) EXCEPT !.del.pc = "idle"]
    /\ UNCHANGED <<gateVars, matchVars, thread, det, dcall, loader, scall,
                   video, chan, sess, shadow>>

\* _load_db_bundle, lines 250-283, called by a detection handler on the
\* event loop.  Lines 258-259: the cached bundle, if there is one
LoadCheck ==
    /\ store.load.pc = "idle"
    /\ store' = IF store.cache.valid
                THEN [store EXCEPT !.load.got = store.cache.entries]
                ELSE [store EXCEPT !.load.pc = "reading"]
    /\ UNCHANGED <<gateVars, matchVars, thread, det, dcall, loader, scall,
                   video, chan, sess, shadow>>

\* lines 262-272: entries = faces.load_all_criminals()
LoadRead ==
    /\ store.load.pc = "reading"
    /\ store' = [store EXCEPT !.load.pc = "publishing",
                              !.load.entries = LoadAllCriminals(store)]
    /\ UNCHANGED <<gateVars, matchVars, thread, det, dcall, loader, scall,
                   video, chan, sess, shadow>>

\* lines 279-283: _db_bundle_cache = (entries, embeddings); return it
LoadPublish ==
    /\ store.load.pc = "publishing"
    /\ store' = [store EXCEPT !.cache = [valid |-> TRUE, entries |-> store.load.entries],
                              !.load = [pc |-> "idle", entries |-> NoGallery,
                                        got |-> store.load.entries]]
    /\ UNCHANGED <<gateVars, matchVars, thread, det, dcall, loader, scall,
                   video, chan, sess, shadow>>

CacheNext ==
    \/ \E name \in Names, picture \in Pictures : UploadImage(name, picture)
    \/ \E name \in Names : DeleteStore(name)
    \/ DeleteInvalidate
    \/ LoadCheck
    \/ LoadRead
    \/ LoadPublish

\* initial state of the components followed by the other specifications
MoreInit ==
    /\ video = NoVideo
    /\ chan = NoChan
    /\ store = NoStore
    /\ sess = NoSess
    /\ shadow = NoShadow

RestInit ==
    /\ det = NoDet
    /\ dcall = NoDCall
    /\ loader = NoLoaders
    /\ scall = NoSCall
    /\ MoreInit

Init ==
    /\ GateInit
    /\ entries = <<>>
    /\ mcall = NoMCall
    /\ thread = NoThreads
    /\ RestInit

Next == GateNext

Spec == Init /\ [][Next]_vars

MatchInit ==
    /\ GateInit
    /\ entries \in Galleries
    /\ mcall = NoMCall
    /\ thread = NoThreads
    /\ RestInit

SpecMatch == MatchInit /\ [][MatchNext]_vars

SpecConc == Init /\ [][ConcNext]_vars

\* the import of detector succeeded or failed when the process started
DetectInit ==
    /\ GateInit
    /\ entries \in ImageGalleries
    /\ mcall = NoMCall
    /\ thread = NoThreads
    /\ det \in {NoDet, [NoDet EXCEPT !.detector = "None"]}
    /\ dcall = NoDCall
    /\ loader = NoLoaders
    /\ scall = NoSCall
    /\ MoreInit

SpecDetect == DetectInit /\ [][DetectNext]_vars

SpecSerialize == Init /\ [][SerializeNext]_vars

SpecLoad == Init /\ [][LoadNext]_vars

SpecVideo == Init /\ [][VideoNext]_vars

SpecChannels == ChannelInit /\ [][ChannelNext]_vars

SpecStore == Init /\ [][StoreNext]_vars

SpecCache == Init /\ [][CacheNext]_vars

SpecShadow == Init /\ [][ShadowNext]_vars

SpecSession == ChannelInit /\ [][SessionNext]_vars

----------------------------------------------------------------------------
(* Properties of the alert gate under sequential calls (Spec) *)

IsCall(c) == c.kind # "none"
Suppressed(c) == c.kind \in {"empty", "no_new", "global"}
X80 == [name |-> "X", score |-> 80]
X95 == [name |-> "X", score |-> 95]
Y90 == [name |-> "Y", score |-> 90]

\* C1: global cooldown. Once an alert fired at t, a call at t' with
\* t' - t < ALERT_COOLDOWN dispatches nothing whatever its labels, and any
\* two fired alerts are at least ALERT_COOLDOWN apart.
C1_GlobalCooldown ==
    /\ [](hist.prev >= 0 => hist.last - hist.prev >= ALERT_COOLDOWN)
    /\ [][(IsCall(call') /\ hist.last >= 0 /\ clock - hist.last < ALERT_COOLDOWN)
            => call'.kind # "fired"]_vars

\* a call carrying only the never-alerted label Y is suppressed by the global gate
C1_Witness ==
    /\ call.kind = "global"
    /\ call.matches = <<Y90>>
    /\ "Y" \notin DOMAIN hist.at
    /\ hist.last >= 0

\* every entry of the batch names X
OnlyX(matches) ==
    /\ matches # <<>>
    /\ \A i \in 1..Len(matches) : matches[i].name = "X"

\* C2: per-identity cooldown. After X fired at t, a call whose only
\* candidate is X is suppressed while t' - t < ALERT_COOLDOWN and fires when
\* t' - t >= ALERT_COOLDOWN and the global cooldown has elapsed too, counted
\* from the real firing and not from suppressed calls in between.
C2_PerIdentityCooldown ==
    [][(IsCall(call') /\ OnlyX(call'.matches) /\ "X" \in DOMAIN hist.at)
         => (call'.kind = "fired"
               <=> (clock - hist.at["X"] >= ALERT_COOLDOWN
                    /\ clock - hist.last >= ALERT_COOLDOWN))]_vars

\* X fires again exactly one cooldown after its previous firing
C2_Witness ==
    /\ call.kind = "fired"
    /\ call.matches = <<X80>>
    /\ DOMAIN hist.at = {"X"}
    /\ hist.prev >= 0
    /\ hist.last - hist.prev = ALERT_COOLDOWN

\* C4: a suppressed call leaves _last_alert_time and
\* _recently_alerted_criminals as they were; only a call that passed every
\* check writes them.
C4_SuppressedNoMutation ==
    /\ [][Suppressed(call')
            => (last_alert_time' = last_alert_time
                /\ recently_alerted_criminals' = recently_alerted_criminals)]_vars
    /\ [][(last_alert_time' # last_alert_time
            \/ recently_alerted_criminals' # recently_alerted_criminals)
            => call'.kind = "fired"]_vars

\* a batch stopped by the global gate while an entry is already stale
C4_Witness ==
    /\ Suppressed(call)
    /\ \E k \in DOMAIN recently_alerted_criminals :
          recently_alerted_criminals[k] < call.now - (ALERT_COOLDOWN * 2)

\* a label of the batch that is alertable and whose own cooldown has elapsed
EligibleLabel(name, now) ==
    /\ name \notin {"", "Unknown"}
    /\ (name \in DOMAIN hist.at => now - hist.at[name] >= ALERT_COOLDOWN)

\* C5: a call at time now that passes every check leaves
\* _last_alert_time = now and maps every eligible label of the batch to now.
C5_FiredUpdatesAll ==
    [][call'.kind = "fired"
         => /\ last_alert_time' = clock
            /\ \A i \in 1..Len(call'.matches) :
                  LET name == GetName(call'.matches[i]) IN
                  EligibleLabel(name, clock)
                     => /\ name \in DOMAIN recently_alerted_criminals'
                        /\ recently_alerted_criminals'[name] = clock]_vars

\* a fired batch with two eligible labels, Y being the primary one
C5_Witness ==
    /\ call.kind = "fired"
    /\ call.matches = <<X80, Y90>>
    /\ call.unique[1].name = "Y"
    /\ recently_alerted_criminals["X"] = call.now

\* C6: the eligible set has at most one entry per label, and it is the
\* first occurrence of that label in the batch, score included.
C6_FirstOccurrenceKept ==
    call.kind = "fired" =>
       /\ \A u, v \in 1..Len(call.unique) :
             call.unique[u].name = call.unique[v].name => u = v
       /\ \A u \in 1..Len(call.unique) :
             \E i \in 1..Len(call.matches) :
                /\ call.matches[i] = call.unique[u]
                /\ \A j \in 1..(i - 1) : GetName(call.matches[j]) # call.unique[u].name

\* the later duplicate has the higher score and is still dropped
C6_Witness ==
    /\ call.kind = "fired"
    /\ call.matches = <<X80, X95>>
    /\ call.unique = <<X80>>

\* every entry of the batch has a missing, empty or "Unknown" name
OnlyUnnamed(matches) ==
    /\ matches # <<>>
    /\ \A i \in 1..Len(matches) : matches[i].name \in {"", "Unknown", Missing}

\* C7: a match whose name is missing, empty or "Unknown" is never recorded
\* and never alerts; a batch of such matches changes no state.
C7_UnknownNeverRecorded ==
    /\ [](DOMAIN recently_alerted_criminals \cap {"", "Unknown", Missing} = {})
    /\ [](call.kind = "fired" =>
             \A u \in 1..Len(call.unique) : call.unique[u].name \notin {"", "Unknown", Missing})
    /\ [][(IsCall(call') /\ OnlyUnnamed(call'.matches))
            => /\ call'.kind # "fired"
               /\ last_alert_time' = last_alert_time
               /\ recently_alerted_criminals' = recently_alerted_criminals]_vars

\* an unnamed match rides along a fired batch and is not recorded
C7_Witness ==
    /\ call.kind = "fired"
    /\ call.matches = <<[name |-> "Unknown", score |-> 90], X80>>
    /\ DOMAIN recently_alerted_criminals = {"X"}

\* C8 as stated: after every call at time now, fired or suppressed, no entry
\* of _recently_alerted_criminals is older than now - 2*ALERT_COOLDOWN.
C8_PrunedAfterEveryCall ==
    IsCall(call) =>
       \A k \in DOMAIN recently_alerted_criminals :
          recently_alerted_criminals[k] >= call.now - (ALERT_COOLDOWN * 2)

\* C8 amended: after every call at time now that fired, no entry of
\* _recently_alerted_criminals is older than now - 2*ALERT_COOLDOWN.
C8_PrunedAfterFiredCall ==
    call.kind = "fired" =>
       \A k \in DOMAIN recently_alerted_criminals :
          recently_alerted_criminals[k] >= call.now - (ALERT_COOLDOWN * 2)

\* a fired call that dropped the entry of a label alerted earlier
C8_Witness ==
    /\ call.kind = "fired"
    /\ \E k \in DOMAIN hist.at :
          /\ k \notin DOMAIN recently_alerted_criminals
          /\ hist.at[k] < call.now - (ALERT_COOLDOWN * 2)

----------------------------------------------------------------------------
(* Properties of concurrent calls (SpecConc) *)

\* the execution of thread t got past the global cooldown check
Passed(t) ==
    \/ thread[t].pc \in {"write_last", "mark", "prune", "assign", "dispatch"}
    \/ thread[t].fired

\* C3: two concurrent executions of _notify_alert never both pass the global
\* cooldown check when their clock readings are less than ALERT_COOLDOWN
\* apart: at most one of them dispatches.
C3_AtMostOnePasses ==
    \A t1, t2 \in Threads :
       (t1 # t2 /\ Passed(t1) /\ Passed(t2))
          => \/ thread[t1].now - thread[t2].now >= ALERT_COOLDOWN
             \/ thread[t2].now - thread[t1].now >= ALERT_COOLDOWN

----------------------------------------------------------------------------
(* Properties of the matcher and of the pipeline's use of it (SpecMatch) *)

\* cosine similarity of two non-zero vectors, in hundredths
Cos(q, g) == (Dot(q, g) * 100) \div (Norm(q) * Norm(g))

\* gallery positions whose embedding has a norm
Usable(ents) == {i \in 1..Len(ents) : Norm(ents[i].embedding) # 0}

\* the maximum similarity of q to the usable gallery embeddings
MaxSim(q, ents) ==
    CHOOSE s \in {Cos(q, ents[i].embedding) : i \in Usable(ents)} :
       \A i \in Usable(ents) : Cos(q, ents[i].embedding) <= s

NonDegenerate(q, ents) == q # NoneEmb /\ Norm(q) # 0 /\ Usable(ents) # {}

\* C9: for a non-degenerate query and gallery, match_embedding returns an
\* index exactly when the maximum similarity is >= threshold, and the score
\* it returns is the maximum similarity in both cases.
C9_ThresholdBoundary ==
    (mcall.op = "match" /\ NonDegenerate(mcall.query, entries)) =>
       /\ mcall.result.score = MaxSim(mcall.query, entries)
       /\ (mcall.result.idx # NoMatch
             <=> MaxSim(mcall.query, entries) >= mcall.threshold)

\* a score equal to the threshold is accepted
C9_Witness ==
    /\ mcall.op = "match"
    /\ NonDegenerate(mcall.query, entries)
    /\ mcall.result.idx # NoMatch
    /\ mcall.result.score = mcall.threshold

\* C10: the identity the pipeline reports for a face is the gallery entry,
\* in gallery order, whose embedding has the maximum similarity to the face,
\* also when the gallery holds zero-norm embeddings.
C10_ReportedIsBestEntry ==
    mcall.op = "pipeline" =>
       \A i \in 1..Len(mcall.faces) :
          mcall.out.match_idx[i] # NoMatch =>
             LET e == entries[mcall.out.match_idx[i]] IN
             /\ Norm(e.embedding) # 0
             /\ Cos(mcall.faces[i].emb, e.embedding) = MaxSim(mcall.faces[i].emb, entries)
             /\ mcall.out.detection_meta[i].name = e.name

\* the query or the gallery gives match_embedding nothing to compare
Degenerate(q, ents) ==
    \/ q = NoneEmb
    \/ ents = <<>>
    \/ Norm(q) = 0
    \/ Usable(ents) = {}

\* C11: match_embedding returns (None, 0.0) for a None query, an empty
\* gallery, a zero-norm query and a gallery of zero-norm vectors only; a
\* zero-norm query matches at no threshold.
C11_DegenerateNoMatch ==
    (mcall.op = "match" /\ Degenerate(mcall.query, entries)) =>
       /\ mcall.result.idx = NoMatch
       /\ mcall.result.score = 0

\* a gallery of zero-norm vectors only, asked at threshold 0
C11_Witness ==
    /\ mcall.op = "match"
    /\ mcall.threshold = 0
    /\ mcall.query # NoneEmb
    /\ Norm(mcall.query) # 0
    /\ entries # <<>>
    /\ Usable(entries) = {}
    /\ mcall.result.idx = NoMatch

\* the gallery position of the k-th embedding match_embedding compares
\* (zero-norm embeddings are not compared)
NthUsable(ents, k) ==
    CHOOSE i \in Usable(ents) : Cardinality({j \in Usable(ents) : j <= i}) = k

\* gallery positions whose similarity to q is the maximum
BestPositions(q, ents) ==
    {i \in Usable(ents) : Cos(q, ents[i].embedding) = MaxSim(q, ents)}

\* C12: when several gallery embeddings share the maximum similarity,
\* match_embedding selects the one that comes first in gallery order.
C12_FirstOfTies ==
    (mcall.op = "match" /\ mcall.result.idx # NoMatch) =>
       LET chosen == NthUsable(entries, mcall.result.idx) IN
       /\ chosen \in BestPositions(mcall.query, entries)
       /\ \A i \in BestPositions(mcall.query, entries) : chosen <= i

\* two gallery embeddings tie for the maximum and the first one is returned
C12_Witness ==
    /\ mcall.op = "match"
    /\ mcall.result.idx # NoMatch
    /\ Cardinality(BestPositions(mcall.query, entries)) >= 2
    /\ NthUsable(entries, mcall.result.idx) \in BestPositions(mcall.query, entries)

\* C13: a face whose mask flag is true gets no gallery match: it adds
\* nothing to the match list, and its detection record has name "Masked", no
\* score and the label "Mask detected - remove mask".
C13_MaskPrecedence ==
    mcall.op = "pipeline" =>
       \A i \in 1..Len(mcall.faces) :
          mcall.faces[i].has_mask =>
             /\ mcall.out.per_face[i] = <<>>
             /\ mcall.out.match_idx[i] = NoMatch
             /\ mcall.out.detection_meta[i].name = "Masked"
             /\ mcall.out.detection_meta[i].score = NoScore
             /\ mcall.out.detection_meta[i].label = "Mask detected - remove mask"

\* a masked face whose embedding is exactly that of a gallery entry
C13_Witness ==
    /\ mcall.op = "pipeline"
    /\ \E i \in 1..Len(mcall.faces) :
          /\ mcall.faces[i].has_mask
          /\ NonDegenerate(mcall.faces[i].emb, entries)
          /\ MaxSim(mcall.faces[i].emb, entries) = 100
          /\ mcall.out.detection_meta[i].name = "Masked"

\* names of the gallery
EntryNames(ents) == {ents[k].name : k \in 1..Len(ents)}

\* C14: for an unmasked face, a gallery match gives "{name} ({score:.2f})"
\* and exactly one Match with that name and score; no match but a score
\* gives "Unknown ({score:.2f})" and no Match; no embedding or an empty
\* gallery gives "Unknown" and no Match.  A gallery holding only Alice and a
\* face of similarity 1.0 give one Match (Alice, 1.0) labelled "Alice (1.00)".
C14_LabelPrecedence ==
    mcall.op = "pipeline" =>
       \A i \in 1..Len(mcall.faces) :
          LET q == mcall.faces[i].emb
              d == mcall.out.detection_meta[i]
              found == NonDegenerate(q, entries) /\ MaxSim(q, entries) >= 55
              best == IF NonDegenerate(q, entries) THEN MaxSim(q, entries) ELSE 0
          IN
          ~mcall.faces[i].has_mask =>
             /\ (q = NoneEmb \/ entries = <<>>) =>
                   (d.label = "Unknown" /\ mcall.out.per_face[i] = <<>>)
             /\ (q # NoneEmb /\ entries # <<>> /\ ~found) =>
                   /\ d.label = "Unknown (" \o FormatScore(best) \o ")"
                   /\ mcall.out.per_face[i] = <<>>
             /\ found =>
                   /\ d.name \in EntryNames(entries)
                   /\ d.label = d.name \o " (" \o FormatScore(best) \o ")"
                   /\ mcall.out.per_face[i] = <<[name |-> d.name, score |-> best]>>
             /\ (found /\ Len(entries) = 1 /\ best = 100) =>
                   /\ d.label = "Alice (1.00)"
                   /\ mcall.out.per_face[i] = <<[name |-> "Alice", score |-> 100]>>
                   /\ Len(mcall.faces) = 1 =>
                         mcall.out.matches = <<[name |-> "Alice", score |-> 100]>>

\* the end-to-end example: Alice alone in the gallery, similarity 1.0
C14_Witness ==
    /\ mcall.op = "pipeline"
    /\ Len(entries) = 1
    /\ mcall.faces = <<[emb |-> entries[1].embedding, has_mask |-> FALSE]>>
    /\ mcall.out.detection_meta[1].label = "Alice (1.00)"
    /\ mcall.out.matches = <<[name |-> "Alice", score |-> 100]>>

----------------------------------------------------------------------------
(* Claims about detector.py and the image pipeline, checked under SpecDetect *)

IsDetect == dcall.op \in {"detect", "detect_image"}

\* C15: detect_faces_and_crops returns three lists of equal length on the
\* neural and on the cascade path, also when boxes were dropped, and the
\* pipeline emits exactly one detection per returned box, carrying that
\* box's mask flag.
C15_EqualLengths ==
    /\ IsDetect =>
          /\ Len(dcall.out.boxes) = Len(dcall.out.crops)
          /\ Len(dcall.out.crops) = Len(dcall.out.mask_flags)
    /\ dcall.op = "detect_image" =>
          /\ Len(dcall.image.detections) = Len(dcall.out.boxes)
          /\ \A i \in 1..Len(dcall.image.detections) :
                dcall.image.detections[i].has_mask = dcall.out.mask_flags[i]

\* the neural path reported two boxes, dropped one and kept one
C15_Witness ==
    /\ dcall.op = "detect"
    /\ dcall.result = "neural"
    /\ Len(dcall.raws) = 2
    /\ Len(dcall.out.boxes) = 1
    /\ Len(dcall.out.mask_flags) = 1

\* a box within an image of ImageSize by ImageSize pixels
WithinImage(box) ==
    /\ 0 <= box[1] /\ box[1] < box[3] /\ box[3] <= ImageSize
    /\ 0 <= box[2] /\ box[2] < box[4] /\ box[4] <= ImageSize

\* C16: every box returned by detect_faces_and_crops, and every box the
\* pipeline draws, lies inside the image: 0 <= x1 < x2 <= width and
\* 0 <= y1 < y2 <= height.
C16_BoxesInsideImage ==
    IsDetect =>
       /\ \A i \in 1..Len(dcall.out.boxes) : WithinImage(dcall.out.boxes[i])
       /\ \A i \in 1..Len(dcall.image.drawn) : WithinImage(dcall.image.drawn[i])

\* the run had no detector, the detector raised, or it returned no boxes
DetectorGaveNothing ==
    /\ dcall.op = "detect_image"
    /\ \/ det.detector = "None"
       \/ dcall.result # "no"
       \/ Len(dcall.out.boxes) = 0

\* C17: when the detector is unavailable, raises or returns no boxes, the
\* pipeline followed by _unpack_pipeline_result yields the original image,
\* an empty match list and no detections, and _notify_alert is not called.
C17_DegradesToOriginalImage ==
    DetectorGaveNothing =>
       /\ dcall.image.annotated = "pil_image"
       /\ dcall.image.matches = <<>>
       /\ ~dcall.image.has_detections
       /\ dcall.image.detections = <<>>
       /\ dcall.image.safe_matches = <<>>
       /\ call.kind = "none"

\* the backend's detect call raised after FaceNet was loaded, with Alice
\* registered
C17_Witness ==
    /\ dcall.op = "detect_image"
    /\ dcall.result = "detect"
    /\ entries # <<>>
    /\ det.facenet_loads = 1
    /\ dcall.before.facenet_loads = 0

\* the call started after _load_mask_model had run once
MaskDecided == dcall.op # "none" /\ dcall.before.mask_model_loaded

\* the call started after _load_facenet had run once
FacenetDecided == dcall.op # "none" /\ dcall.before.facenet_available # "None"

\* C18: under sequential calls each lazy loader attempts its model load at
\* most once; once a loader has run, success or failure, a later call
\* starts no new load, changes nothing and returns the remembered result,
\* and after a failed mask-model load detect_mask returns False and every
\* mask flag is False.
C18_LoadAttemptedOnce ==
    /\ det.mask_loads <= 1
    /\ det.facenet_loads <= 1
    /\ MaskDecided =>
          /\ det.mask_loads = dcall.before.mask_loads
          /\ det.mask_model = dcall.before.mask_model
          /\ det.mask_model_loaded
          /\ dcall.op = "load_mask" => dcall.result = dcall.before.mask_model
          /\ (dcall.op = "detect_mask" /\ dcall.before.mask_model = "None") =>
                dcall.result = "False"
          /\ (IsDetect /\ dcall.before.mask_model = "None") =>
                \A i \in 1..Len(dcall.out.mask_flags) : ~dcall.out.mask_flags[i]
    /\ FacenetDecided =>
          /\ det.facenet_loads = dcall.before.facenet_loads
          /\ det.facenet_available = dcall.before.facenet_available
          /\ det.USE_FACENET = dcall.before.USE_FACENET
          /\ det.mtcnn = dcall.before.mtcnn
          /\ dcall.op = "load_facenet" =>
                dcall.result = (IF dcall.before.USE_FACENET THEN "True" ELSE "False")

\* detect_mask is called on a crop after the one load of the mask model
\* had failed
C18_Witness ==
    /\ dcall.op = "detect_mask"
    /\ dcall.before.mask_model_loaded
    /\ dcall.before.mask_model = "None"
    /\ dcall.before.mask_loads = 1
    /\ det.mask_loads = 1
    /\ dcall.result = "False"

----------------------------------------------------------------------------
(* Claim about concurrent first calls of the loaders, checked under SpecLoad *)

\* C19: when two threads make their first call to a loader concurrently,
\* the model load is executed once in total, under every interleaving.
C19_LoadedOnceInTotal ==
    /\ det.facenet_loads <= 1
    /\ det.mask_loads <= 1

----------------------------------------------------------------------------
(* Claim about _serialize_matches, checked under SpecSerialize *)

\* the key the claim names: the name and the score rounded to 4 decimals
RoundedKey(item) ==
    <<IF item.name = Missing THEN "Unknown" ELSE item.name,
      IF item.score = NoScore THEN NoScore ELSE ((item.score + 5) \div 10) * 10>>

\* positions of the dicts that are the first with their key
FirstPositions(matches) ==
    {i \in 1..Len(matches) :
        /\ matches[i].kind = "dict"
        /\ \A j \in 1..(i - 1) :
              matches[j].kind = "dict" => RoundedKey(matches[j]) # RoundedKey(matches[i])}

\* the k-th smallest member of a set of positions
NthPosition(S, k) == CHOOSE i \in S : Cardinality({j \in S : j <= i}) = k

\* the first occurrences in input order, as the serialiser writes them
FirstOccurrences(matches) ==
    [k \in 1..Cardinality(FirstPositions(matches)) |->
        LET item == matches[NthPosition(FirstPositions(matches), k)] IN
        [kind |-> "dict", name |-> IF item.name = Missing THEN "Unknown" ELSE item.name,
         score |-> item.score]]

\* C20: the list returned by _serialize_matches has no two entries with the
\* same name and score rounded to 4 decimals, it holds the first occurrence
\* of each key in input order, and serialising it again returns it unchanged.
C20_SerializeDeduplicates ==
    scall.op # "none" =>
       /\ \A i, j \in 1..Len(scall.out) :
             i # j => RoundedKey(scall.out[i]) # RoundedKey(scall.out[j])
       /\ scall.out = FirstOccurrences(scall.matches)
       /\ SerializeMatches(scall.out) = scall.out
       /\ scall.op = "aggregate" => scall.out = scall.matches

\* two scores of X that differ only beyond the fourth decimal: the first
\* is kept with its own score, the second is dropped
C20_Witness ==
    /\ scall.op = "serialize"
    /\ scall.matches = <<[kind |-> "dict", name |-> "X", score |-> 80001],
                         [kind |-> "dict", name |-> "X", score |-> 80004]>>
    /\ scall.out = <<[kind |-> "dict", name |-> "X", score |-> 80001]>>

----------------------------------------------------------------------------
(* Claims about detect_video, checked under SpecVideo *)

\* the frame stream of the request has ended
StreamEnded == video.pc \in {"final", "done", "failed", "closed"}

\* C21: once the frame stream of a request whose capture was opened has
\* ended (end of input, frame limit, exception in a frame, or the consumer
\* closing it), the capture is released and the temporary file removed; a
\* capture that failed to open has its temporary file removed.
C21_StreamResourcesReleased ==
    /\ StreamEnded => (video.cap = "released" /\ video.tmp = "removed")
    /\ (video.pc = "rejected" /\ video.cap = "failed") => video.tmp = "removed"

ChannelSends == {chan.sms, chan.pushover, chan.email}

\* C22 as stated: a delivery failure on any channel is reported as False,
\* is not retried (the send makes no second attempt), and nothing raises
\* out of the send function or out of _notify_alert.
C22_FailureIsFalseNeverRetried ==
    /\ \A s \in ChannelSends : s.failed => (s.result = "False" /\ s.attempts <= 1)
    /\ ~chan.raised

\* C22 amended: a send whose delivery failed for good returns False and
\* nothing raises; _notify_alert calls each send function at most once per
\* alert; the SMS and Pushover sends make one attempt, the email send makes
\* up to EMAIL_MAX_RETRIES further attempts of its own and returns True only
\* when one of them succeeded.
C22_FailureIsFalseNeverRaises ==
    /\ ~chan.raised
    /\ \A s \in ChannelSends : s.calls <= 1 /\ s.result \in {"none", "True", "False"}
    /\ \A s \in {chan.sms, chan.pushover} : s.failed => (s.result = "False" /\ s.attempts <= 1)
    /\ chan.email.failed =>
          /\ chan.email.attempts <= EMAIL_MAX_RETRIES + 1
          /\ chan.email.result = "True" =>
                (chan.email.attempts > 1 /\ chan.outcomes[chan.email.attempts] = "ok")

C22_Witness ==
    /\ chan.op = "notify"
    /\ call.kind = "fired"
    /\ \A s \in ChannelSends : s.calls = 1 /\ s.failed /\ s.result = "False"
    /\ chan.email.attempts = EMAIL_MAX_RETRIES + 1

\* the attempt that ends the email loop: the first that succeeds or meets an
\* authentication error, the last one otherwise
LastAttempt(outcomes) ==
    IF \E i \in DOMAIN outcomes : outcomes[i] \in {"ok", "auth"}
    THEN CHOOSE i \in DOMAIN outcomes :
            /\ outcomes[i] \in {"ok", "auth"}
            /\ \A j \in 1..(i - 1) : outcomes[j] \notin {"ok", "auth"}
    ELSE EMAIL_MAX_RETRIES + 1

EmailTried == chan.email.calls = 1 /\ chan.email.to # "None" /\ chan.conf.email

\* C26: _send_email_alert makes at most EMAIL_MAX_RETRIES + 1 attempts; it
\* stops at the first attempt that succeeds and returns True, stops at an
\* authentication error without retrying, and returns False when no attempt
\* succeeded.
C26_EmailAttemptsBounded ==
    EmailTried =>
       /\ chan.email.attempts <= EMAIL_MAX_RETRIES + 1
       /\ chan.email.attempts = LastAttempt(chan.outcomes)
       /\ chan.email.result = IF chan.outcomes[chan.email.attempts] = "ok" THEN "True" ELSE "False"

C26_Witness ==
    /\ chan.op = "email"
    /\ EmailTried
    /\ chan.outcomes[1] = "network"
    /\ chan.outcomes[2] = "auth"
    /\ chan.outcomes[3] = "ok"
    /\ chan.email.attempts = 2
    /\ chan.email.result = "False"

\* C27: the email given at login or registration is the one the session
\* payload holds and the one _notify_alert sends to, also when the user name
\* contains no "@".
C27_SuppliedEmailIsRecipient ==
    /\ \A t \in DOMAIN sess.tokens :
          sess.forms[t].email # "None" => sess.tokens[t].email = sess.forms[t].email
    /\ (/\ chan.op = "notify"
        /\ call.kind = "fired"
        /\ chan.conf.email
        /\ sess.used \in DOMAIN sess.tokens
        /\ sess.forms[sess.used].email # "None")
       => chan.email.to = sess.forms[sess.used].email

\* C28: within one video stream _notify_alert is invoked at most once, on
\* the first processed frame whose match list is not empty, and alert_sent
\* is true from then on whether or not the gate let the alert through.
C28_OneAlertPerStream ==
    /\ video.notified <= 1
    /\ video.notified_at = video.first_match
    /\ video.alert_sent <=> video.first_match # 0
    /\ (video.notified = 1 /\ video.pc # "idle") => call.kind \in {"fired", "no_new", "global"}

C28_Witness ==
    /\ video.pc = "suspended"
    /\ video.processed = 2
    /\ video.first_match = 2
    /\ video.notified = 1
    /\ video.alert_sent
    /\ call.kind \in {"no_new", "global"}

\* the labels of a batch that the loop of _notify_alert does not filter out
BatchLabels(matches) ==
    {GetName(matches[i]) : i \in {j \in 1..Len(matches) : ~IsFiltered(GetName(matches[j]))}}

\* C29: every timestamp in _recently_alerted_criminals is at most
\* _last_alert_time; so whenever the global cooldown has run out no label is
\* inside its per-identity cooldown, and an alert that fired skipped no
\* label of its batch.
C29_StampsNotAfterLastAlert ==
    /\ \A k \in DOMAIN recently_alerted_criminals :
          recently_alerted_criminals[k] <= last_alert_time
    /\ clock - last_alert_time >= ALERT_COOLDOWN =>
          \A k \in DOMAIN recently_alerted_criminals :
             clock - recently_alerted_criminals[k] >= ALERT_COOLDOWN
    /\ call.kind = "fired" =>
          BatchLabels(call.matches) = {call.unique[i].name : i \in 1..Len(call.unique)}

C29_Witness ==
    /\ call.kind = "fired"
    /\ \E k \in DOMAIN recently_alerted_criminals :
          /\ recently_alerted_criminals[k] < last_alert_time
          /\ k \notin BatchLabels(call.matches)
    /\ hist.prev >= 0
    /\ BatchLabels(call.matches) # {}

\* C25: pruning does not affect decisions: on every call the gate fires
\* exactly when the gate without the pruning step fires, and both find the
\* same labels eligible.
C25_PruningKeepsDecisions ==
    call.kind # "none" =>
       /\ (call.kind = "fired") <=> shadow.fired
       /\ shadow.real_eligible = shadow.eligible
       /\ last_alert_time = shadow.last

\* a label that was pruned is alerted again, and the unpruned gate still
\* holds its old timestamp
C25_Witness ==
    /\ call.kind = "fired"
    /\ \E k \in DOMAIN shadow.recent :
          /\ k \notin DOMAIN recently_alerted_criminals
          /\ hist.prev >= 0
    /\ \E k \in shadow.eligible : hist.at[k] = clock /\ hist.prev >= 0

\* C23: once a registration or deletion has completed, a pipeline run that
\* starts afterwards gets from _load_db_bundle a gallery that reflects it:
\* with no change and no load in progress, a cached bundle is the gallery
\* of the store.
C23_FreshRunSeesChange ==
    (store.load.pc = "idle" /\ store.del.pc = "idle" /\ store.cache.valid)
       => store.cache.entries = LoadAllCriminals(store)

\* C24: faces.delete_criminal(name) returns True exactly when name is
\* registered, and then its metadata entry, image file and embedding file
\* are gone and load_all_criminals no longer returns it; otherwise it
\* returns False and the store is unchanged.
C24_DeleteRemovesRegistered ==
    store.op.kind = "delete" =>
       /\ store.op.result <=> store.op.name \in DOMAIN store.op.meta
       /\ store.op.result =>
             /\ store.op.name \notin DOMAIN store.meta
             /\ store.op.name \notin DOMAIN LoadAllCriminals(store)
             /\ store.op.name \in DOMAIN store.op.meta =>
                   /\ store.op.meta[store.op.name].image \notin store.images
                   /\ store.op.meta[store.op.name].embedding \notin DOMAIN store.embs
       /\ ~store.op.result =>
             /\ store.meta = store.op.meta
             /\ store.images = store.op.images
             /\ store.embs = store.op.embs

\* C30: deleting or re-registering a registered name A leaves every other
\* registered name B returned by load_all_criminals exactly when it was
\* before, with the same embedding.
C30_OtherIdentitiesIntact ==
    (store.op.kind \in {"add", "delete"} /\ store.op.name \in DOMAIN store.op.meta) =>
       \A B \in DOMAIN store.op.meta \ {store.op.name} :
          /\ B \in DOMAIN LoadAllCriminals(store) <=> B \in DOMAIN store.op.gallery
          /\ B \in DOMAIN store.op.gallery => LoadAllCriminals(store)[B] = store.op.gallery[B]

====
